---- MODULE Spec2Model ----
(***************************************************************************)
(* VmaReplay: replay of a recorded log of Vulkan Memory Allocator calls.   *)
(* The model follows src/src/VmaReplay/VmaReplay.cpp: the file header and  *)
(* version gate, class Statistics, class Player (one handler per recorded  *)
(* function, the handle registries m_Pools and m_Allocations, the warning  *)
(* sink) and the iteration loop of ProcessFile().                          *)
(*                                                                         *)
(* A handler of the source is an operator from a machine state s to the    *)
(* machine state after it.  s.p is the Player object; s.calls, s.warns,    *)
(* s.shown, s.printed and s.next observe what the handler did to its       *)
(* surroundings: the allocator entry points it invoked, the warnings       *)
(* IssueWarning counted, the ordinals of the warnings it allowed to be     *)
(* printed, the messages written to the output, and the allocator's supply *)
(* of live handles.                                                        *)
(***************************************************************************)
EXTENDS Integers, Sequences, FiniteSets, TLC

VARIABLES
    pc,                 \* "open" | "start" | "playing" | "exit": position in ProcessFile()
    file,               \* the source file: [state, line1, versionOk, major, minor]
    g_Verbosity,        \* VERBOSITY
    g_UserDataEnabled,  \* --UserData
    g_IterationCount,   \* -i
    g_FileVersion,      \* packed (major << 16) | minor
    iter,               \* the loop index i of ProcessFile()
    iterResults,        \* what each ProcessFile(i, ...) returned, in order
    exitStatus,         \* what ProcessFile() returned to main
    player,             \* the Player object of the running iteration
    nlines,             \* records handed to Player::ExecuteLine in this iteration
    rec,                \* the record last handed to Player::ExecuteLine
    calls,              \* allocator entry points invoked by the last step
    warns,              \* warnings counted by the last step, by kind
    shown,              \* ordinals of the warnings IssueWarning allowed to be printed
    suppressedReport,   \* the "more warnings not shown" figure of ~Player, or -1
    nextHandle,         \* live handles handed out by the allocator so far
    life,               \* per original id: was its last creation/destroy record a creation
    g_LineRanges,       \* --Lines: the parsed ranges, none when the option is absent
    lineSplit,          \* lines of the file read so far in this iteration (GetNextLineIndex)
    executed,           \* line numbers handed to Player::ExecuteLine in this iteration
    printed,            \* messages the last step wrote to the output, by kind
    handles             \* what became of the live handles of this iteration so far

vars == <<pc, file, g_Verbosity, g_UserDataEnabled, g_IterationCount, g_FileVersion,
          iter, iterResults, exitStatus, player, nlines, rec, calls, warns, shown,
          suppressedReport, nextHandle, life, g_LineRanges, lineSplit, executed,
          printed, handles>>

----------------------------------------------------------------------------
(* Program constants *)

RESULT_ERROR_SOURCE_FILE == -2
RESULT_ERROR_FORMAT == -3
RESULT_ERROR_VULKAN == -4

VERBOSITY_MINIMUM == 0
VERBOSITY_DEFAULT == 1
VERBOSITY_MAXIMUM == 2

FIRST_PARAM_INDEX == 4
MAX_WARNINGS_TO_SHOW == 64

VK_NULL_HANDLE == 0

\* A field of a record that does not convert (StrRangeToUint, StrRangeToPtr fail).
BAD == -1

VMA_FUNCTION_NAMES ==
    { "vmaCreatePool", "vmaDestroyPool", "vmaSetAllocationUserData",
      "vmaCreateBuffer", "vmaDestroyBuffer", "vmaCreateImage", "vmaDestroyImage",
      "vmaFreeMemory", "vmaCreateLostAllocation", "vmaAllocateMemory",
      "vmaAllocateMemoryForBuffer", "vmaAllocateMemoryForImage", "vmaMapMemory",
      "vmaUnmapMemory", "vmaFlushAllocation", "vmaInvalidateAllocation",
      "vmaTouchAllocation", "vmaGetAllocationInfo", "vmaMakePoolAllocationsLost" }

\* Usage and allocation flags are bit masks; a mask is the set of its bits.
BufferClass0Bits == {"INDIRECT_BUFFER", "VERTEX_BUFFER", "INDEX_BUFFER"}
BufferClass1Bits == {"STORAGE_BUFFER", "STORAGE_TEXEL_BUFFER"}
BufferClass2Bits == {"UNIFORM_BUFFER", "UNIFORM_TEXEL_BUFFER"}
ImageClass0Bits == {"DEPTH_STENCIL_ATTACHMENT"}
ImageClass1Bits == {"INPUT_ATTACHMENT", "TRANSIENT_ATTACHMENT", "COLOR_ATTACHMENT"}
ImageClass2Bits == {"SAMPLED"}
VK_IMAGE_TILING_LINEAR == 1
USER_DATA_COPY_STRING_BIT == "USER_DATA_COPY_STRING"
DEDICATED_MEMORY_BIT == "DEDICATED_MEMORY"

----------------------------------------------------------------------------
(* The file version *)

\* A uint32_t is kept as its two 16-bit halves [hi, lo].

RECURSIVE BitOr(_, _, _)
\* a | b over the low n bits
BitOr(a, b, n) ==
    IF n = 0 THEN 0
    ELSE (IF a % 2 = 1 \/ b % 2 = 1 THEN 1 ELSE 0) + 2 * BitOr(a \div 2, b \div 2, n - 1)

\* x << 16 in uint32_t: the high half is shifted out
Shl16(x) == [hi |-> x.lo, lo |-> 0]
\* x >> 16
Shr16(x) == [hi |-> 0, lo |-> x.hi]
\* x & 0xFFFF
Low16(x) == [hi |-> 0, lo |-> x.lo]
Or32(x, y) == [hi |-> BitOr(x.hi, y.hi, 16), lo |-> BitOr(x.lo, y.lo, 16)]
U32Of(n) == [hi |-> 0, lo |-> n]

\* csvSplit.GetCount() == 2 and both fields convert
ParseFileVersionOk(f) == f.versionOk

\* g_FileVersion = (major << 16) | minor
ParseFileVersion(f) == Or32(Shl16(f.major), f.minor)

ValidateFileVersion(v) ==
    LET major == Shr16(v)
        minor == Low16(v)
    IN  major = U32Of(1) /\ minor.hi = 0 /\ minor.lo <= 2

----------------------------------------------------------------------------
(* class Statistics *)

BufferUsageToClass(usage) ==
    IF usage \cap BufferClass0Bits # {} THEN 0
    ELSE IF usage \cap BufferClass1Bits # {} THEN 1
    ELSE IF usage \cap BufferClass2Bits # {} THEN 2
    ELSE 3

\* ImageUsageToClass testing the sampled bit before the attachment bits.
ImageUsageToClassSampledFirst(usage) ==
    IF usage \cap ImageClass0Bits # {} THEN 0
    ELSE IF usage \cap ImageClass2Bits # {} THEN 2
    ELSE IF usage \cap ImageClass1Bits # {} THEN 1
    ELSE 3

ImageUsageToClass(usage) ==
    IF usage \cap ImageClass0Bits # {} THEN 0
    ELSE IF usage \cap ImageClass1Bits # {} THEN 1
    ELSE IF usage \cap ImageClass2Bits # {} THEN 2
    ELSE 3

NewStatistics ==
    [ m_FunctionCallCount |-> [f \in VMA_FUNCTION_NAMES |-> 0],
      m_ImageCreationCount |-> [c \in 0..3 |-> 0],
      m_LinearImageCreationCount |-> 0,
      m_BufferCreationCount |-> [c \in 0..3 |-> 0],
      m_AllocationCreationCount |-> 0,
      m_PoolCreationCount |-> 0 ]

RegisterFunctionCall(s, func) ==
    [s EXCEPT !.p.m_Stats.m_FunctionCallCount[func] = @ + 1]

RegisterCreateImage(s, usage, tiling) ==
    IF tiling = VK_IMAGE_TILING_LINEAR
    THEN [s EXCEPT !.p.m_Stats.m_LinearImageCreationCount = @ + 1,
                   !.p.m_Stats.m_AllocationCreationCount = @ + 1]
    ELSE [s EXCEPT !.p.m_Stats.m_ImageCreationCount[ImageUsageToClass(usage)] = @ + 1,
                   !.p.m_Stats.m_AllocationCreationCount = @ + 1]

RegisterCreateBuffer(s, usage) ==
    [s EXCEPT !.p.m_Stats.m_BufferCreationCount[BufferUsageToClass(usage)] = @ + 1,
              !.p.m_Stats.m_AllocationCreationCount = @ + 1]

RegisterCreatePool(s) ==
    [s EXCEPT !.p.m_Stats.m_PoolCreationCount = @ + 1]

RegisterCreateAllocation(s) ==
    [s EXCEPT !.p.m_Stats.m_AllocationCreationCount = @ + 1]

----------------------------------------------------------------------------
(* class Player *)

NewPlayer ==
    [ m_WarningCount |-> 0,
      m_AllocateForBufferImageWarningIssued |-> FALSE,
      m_Allocator |-> VK_NULL_HANDLE,
      m_VmaFrameIndex |-> 0,
      m_Pools |-> << >>,
      m_Allocations |-> << >>,
      m_Threads |-> << >>,
      m_LastLineTimeStr |-> "",
      m_Stats |-> NewStatistics ]

\* Allocation allocDesc = {}
NullAllocation ==
    [ allocationFlags |-> {}, allocation |-> VK_NULL_HANDLE,
      buffer |-> VK_NULL_HANDLE, image |-> VK_NULL_HANDLE ]

\* m[k] = v of std::unordered_map
MapPut(m, k, v) == [x \in DOMAIN m \cup {k} |-> IF x = k THEN v ELSE m[x]]
\* m.erase(k)
MapErase(m, k) == [x \in DOMAIN m \ {k} |-> m[x]]

\* An allocator entry point is invoked.
Call(s, fn, h, pool, flags, ud, res) ==
    [s EXCEPT !.calls = Append(@, [fn |-> fn, h |-> h, pool |-> pool,
                                   flags |-> flags, ud |-> ud, res |-> res])]

Call1(s, fn, h) == Call(s, fn, h, VK_NULL_HANDLE, {}, "null", TRUE)

\* IssueWarningShows with <= for <.
IssueWarningShowsOneMore(n) ==
    IF g_Verbosity < VERBOSITY_MAXIMUM THEN n <= MAX_WARNINGS_TO_SHOW ELSE TRUE

\* The return value of Player::IssueWarning with m_WarningCount = n before the call.
IssueWarningShows(n) ==
    IF g_Verbosity < VERBOSITY_MAXIMUM THEN n < MAX_WARNINGS_TO_SHOW ELSE TRUE

\* printf(kind)
Printf(s, kind) == [s EXCEPT !.printed = Append(@, kind)]

\* if(IssueWarning()) printf(kind)
IssueWarning(s, kind) ==
    [s EXCEPT !.p.m_WarningCount = @ + 1,
              !.warns = Append(@, kind),
              !.shown = IF IssueWarningShows(s.p.m_WarningCount)
                        THEN @ \cup {s.p.m_WarningCount + 1} ELSE @,
              !.printed = IF IssueWarningShows(s.p.m_WarningCount)
                          THEN Append(@, kind) ELSE @]

\* Destroy freeing the memory of every entry, whatever it was created as.
DestroyAlwaysFrees(s, alloc) ==
    Call1(s, "vmaFreeMemory", alloc.allocation)

\* The assert is kept as a message, which no build prints when it holds.
Destroy(s, alloc) ==
    IF alloc.buffer # VK_NULL_HANDLE
    THEN Call1(IF alloc.image = VK_NULL_HANDLE THEN s
               ELSE Printf(s, "Assertion failed: alloc.image == VK_NULL_HANDLE"),
               "vmaDestroyBuffer", alloc.allocation)
    ELSE IF alloc.image # VK_NULL_HANDLE
    THEN Call1(s, "vmaDestroyImage", alloc.allocation)
    ELSE Call1(s, "vmaFreeMemory", alloc.allocation)

\* outPool of a FindPool that hands the original id on when the pool it finds
\* is null.
FindPoolHandleOfNull(s, origPool) ==
    IF origPool # 0 /\ origPool \in DOMAIN s.p.m_Pools
    THEN IF s.p.m_Pools[origPool].pool # VK_NULL_HANDLE
         THEN s.p.m_Pools[origPool].pool ELSE origPool
    ELSE VK_NULL_HANDLE

\* outPool of Player::FindPool
FindPoolHandle(s, origPool) ==
    IF origPool # 0 /\ origPool \in DOMAIN s.p.m_Pools
    THEN s.p.m_Pools[origPool].pool ELSE VK_NULL_HANDLE

\* FindPool warning about every id the pool registry does not hold, zero included.
FindPoolWarnsZero(s, origPool) ==
    IF origPool \notin DOMAIN s.p.m_Pools
    THEN IssueWarning(s, "Pool not found") ELSE s

FindPool(s, origPool) ==
    IF origPool # 0 /\ origPool \notin DOMAIN s.p.m_Pools
    THEN IssueWarning(s, "Pool not found") ELSE s

\* AddAllocation without the registration of a failed creation.
AddAllocationDropsFailed(s, origPtr, res, allocDesc) ==
    IF origPtr # 0
    THEN IF res
         THEN LET s2 == IF origPtr \in DOMAIN s.p.m_Allocations
                        THEN IssueWarning(s, "Allocation already exists") ELSE s
              IN  [s2 EXCEPT !.p.m_Allocations = MapPut(@, origPtr, allocDesc)]
         ELSE IssueWarning(s, "failed, while originally succeeded")
    ELSE IF res THEN Destroy(IssueWarning(s, "succeeded, originally failed"), allocDesc)
         ELSE IssueWarning(s, "failed, originally also failed")

\* AddAllocation without the destroy of an object the original run did not have.
AddAllocationLeaks(s, origPtr, res, allocDesc) ==
    IF origPtr # 0
    THEN LET s1 == IF res THEN s
                   ELSE IssueWarning(s, "failed, while originally succeeded")
             s2 == IF origPtr \in DOMAIN s1.p.m_Allocations
                   THEN IssueWarning(s1, "Allocation already exists") ELSE s1
         IN  [s2 EXCEPT !.p.m_Allocations = MapPut(@, origPtr, allocDesc)]
    ELSE IF res THEN IssueWarning(s, "succeeded, originally failed")
         ELSE IssueWarning(s, "failed, originally also failed")

\* AddAllocation with the insert of std::map, which keeps an entry already there.
AddAllocationKeepsFirst(s, origPtr, res, allocDesc) ==
    IF origPtr # 0
    THEN LET s1 == IF res THEN s
                   ELSE IssueWarning(s, "failed, while originally succeeded")
         IN  IF origPtr \in DOMAIN s1.p.m_Allocations
             THEN IssueWarning(s1, "Allocation already exists")
             ELSE [s1 EXCEPT !.p.m_Allocations = MapPut(@, origPtr, allocDesc)]
    ELSE IF res THEN Destroy(IssueWarning(s, "succeeded, originally failed"), allocDesc)
         ELSE IssueWarning(s, "failed, originally also failed")

AddAllocation(s, origPtr, res, allocDesc) ==
    IF origPtr # 0
    THEN LET s1 == IF res THEN s
                   ELSE IssueWarning(s, "failed, while originally succeeded")
             s2 == IF origPtr \in DOMAIN s1.p.m_Allocations
                   THEN IssueWarning(s1, "Allocation already exists") ELSE s1
         IN  [s2 EXCEPT !.p.m_Allocations = MapPut(@, origPtr, allocDesc)]
    ELSE IF res
         THEN Destroy(IssueWarning(s, "succeeded, originally failed"), allocDesc)
         ELSE IssueWarning(s, "failed, originally also failed")

\* ParamCountOk one column short where the last parameter is unbounded.
ParamCountOkOneShort(count, expectedParamCount, lastUnbound) ==
    IF lastUnbound
    THEN count >= FIRST_PARAM_INDEX + expectedParamCount - 2
    ELSE count = FIRST_PARAM_INDEX + expectedParamCount

ParamCountOk(count, expectedParamCount, lastUnbound) ==
    IF lastUnbound
    THEN count >= FIRST_PARAM_INDEX + expectedParamCount - 1
    ELSE count = FIRST_PARAM_INDEX + expectedParamCount

ValidateFunctionParameterCount(s, count, expectedParamCount, lastUnbound) ==
    IF ParamCountOk(count, expectedParamCount, lastUnbound)
    THEN s ELSE IssueWarning(s, "Incorrect number of function parameters")

\* outUserData of a PrepareUserData that does not look at g_UserDataEnabled.
PrepareUserDataValueIgnoresToggle(allocCreateFlags, userDataColumn) ==
    IF USER_DATA_COPY_STRING_BIT \in allocCreateFlags THEN "str"
    ELSE IF userDataColumn # BAD THEN "ptr"
    ELSE "null"

\* outUserData of Player::PrepareUserData: "null", "str" (the scratch string) or "ptr"
PrepareUserDataValue(allocCreateFlags, userDataColumn) ==
    IF ~g_UserDataEnabled THEN "null"
    ELSE IF USER_DATA_COPY_STRING_BIT \in allocCreateFlags THEN "str"
    ELSE IF userDataColumn # BAD THEN "ptr"
    ELSE "null"

\* PrepareUserData converting the column to a pointer also when the flags ask
\* for a string.
PrepareUserDataParsesStrings(s, allocCreateFlags, userDataColumn) ==
    IF ~g_UserDataEnabled THEN s
    ELSE IF userDataColumn # BAD THEN s
    ELSE IssueWarning(s, "Invalid pUserData")

PrepareUserData(s, allocCreateFlags, userDataColumn) ==
    IF ~g_UserDataEnabled THEN s
    ELSE IF USER_DATA_COPY_STRING_BIT \in allocCreateFlags THEN s
    ELSE IF userDataColumn # BAD THEN s
    ELSE IssueWarning(s, "Invalid pUserData")


\* The creation handlers end alike: the live call, then AddAllocation.
\* The allocator returns a fresh live handle on success and none on failure.
LiveHandle(s, live) == IF live THEN s.next + 1 ELSE VK_NULL_HANDLE

TakeHandle(s, live) == IF live THEN [s EXCEPT !.next = @ + 1] ELSE s

\* ExecuteCreatePool with the pool counted before its parameters are converted.
ExecuteCreatePoolCountsFirst(s, r) ==
    LET s0 == RegisterFunctionCall(s, "vmaCreatePool") IN
    IF ~ParamCountOk(r.count, 7, FALSE)
    THEN ValidateFunctionParameterCount(s0, r.count, 7, FALSE)
    ELSE IF ~r.dec THEN IssueWarning(RegisterCreatePool(s0), "Invalid parameters")
    ELSE
      LET s1 == RegisterCreatePool(s0)
          poolDesc == [pool |-> LiveHandle(s1, r.live)]
          s2 == TakeHandle(Call(s1, "vmaCreatePool", poolDesc.pool, VK_NULL_HANDLE,
                                {}, "null", r.live), r.live)
      IN  IF r.id # 0
          THEN LET s3 == IF r.live THEN s2
                         ELSE IssueWarning(s2, "failed, while originally succeeded")
                   s4 == IF r.id \in DOMAIN s3.p.m_Pools
                         THEN IssueWarning(s3, "Pool already exists") ELSE s3
               IN  [s4 EXCEPT !.p.m_Pools = MapPut(@, r.id, poolDesc)]
          ELSE IF r.live
               THEN Call1(IssueWarning(s2, "succeeded, originally failed"),
                          "vmaDestroyPool", poolDesc.pool)
               ELSE IssueWarning(s2, "failed, originally also failed")

ExecuteCreatePool(s, r) ==
    LET s0 == RegisterFunctionCall(s, "vmaCreatePool") IN
    IF ~ParamCountOk(r.count, 7, FALSE)
    THEN ValidateFunctionParameterCount(s0, r.count, 7, FALSE)
    ELSE IF ~r.dec THEN IssueWarning(s0, "Invalid parameters")
    ELSE
      LET s1 == RegisterCreatePool(s0)
          poolDesc == [pool |-> LiveHandle(s1, r.live)]
          s2 == TakeHandle(Call(s1, "vmaCreatePool", poolDesc.pool, VK_NULL_HANDLE,
                                {}, "null", r.live), r.live)
      IN  IF r.id # 0
          THEN LET s3 == IF r.live THEN s2
                         ELSE IssueWarning(s2, "failed, while originally succeeded")
                   s4 == IF r.id \in DOMAIN s3.p.m_Pools
                         THEN IssueWarning(s3, "Pool already exists") ELSE s3
               IN  [s4 EXCEPT !.p.m_Pools = MapPut(@, r.id, poolDesc)]
          ELSE IF r.live
               THEN Call1(IssueWarning(s2, "succeeded, originally failed"),
                          "vmaDestroyPool", poolDesc.pool)
               ELSE IssueWarning(s2, "failed, originally also failed")

\* ExecuteDestroyPool erasing the pool without the call to vmaDestroyPool.
ExecuteDestroyPoolEraseOnly(s, r) ==
    LET s0 == RegisterFunctionCall(s, "vmaDestroyPool") IN
    IF ~ParamCountOk(r.count, 1, FALSE)
    THEN ValidateFunctionParameterCount(s0, r.count, 1, FALSE)
    ELSE IF ~r.dec THEN IssueWarning(s0, "Invalid parameters")
    ELSE IF r.id = 0 THEN s0
    ELSE IF r.id \in DOMAIN s0.p.m_Pools
    THEN [s0 EXCEPT !.p.m_Pools = MapErase(@, r.id)]
    ELSE IssueWarning(s0, "Pool not found")

ExecuteDestroyPool(s, r) ==
    LET s0 == RegisterFunctionCall(s, "vmaDestroyPool") IN
    IF ~ParamCountOk(r.count, 1, FALSE)
    THEN ValidateFunctionParameterCount(s0, r.count, 1, FALSE)
    ELSE IF ~r.dec THEN IssueWarning(s0, "Invalid parameters")
    ELSE IF r.id = 0 THEN s0
    ELSE IF r.id \in DOMAIN s0.p.m_Pools
    THEN [Call1(s0, "vmaDestroyPool", s0.p.m_Pools[r.id].pool)
            EXCEPT !.p.m_Pools = MapErase(@, r.id)]
    ELSE IssueWarning(s0, "Pool not found")

\* ExecuteSetAllocationUserData looking at g_UserDataEnabled only after it has
\* validated the number of columns.
ExecuteSetAllocationUserDataValidatesFirst(s, r) ==
    LET s0 == RegisterFunctionCall(s, "vmaSetAllocationUserData") IN
    IF ~ParamCountOk(r.count, 2, TRUE)
    THEN ValidateFunctionParameterCount(s0, r.count, 2, TRUE)
    ELSE IF ~g_UserDataEnabled THEN s0
    ELSE IF ~r.dec THEN IssueWarning(s0, "Invalid parameters")
    ELSE IF r.id \in DOMAIN s0.p.m_Allocations
    THEN LET it == s0.p.m_Allocations[r.id]
             has == r.count > FIRST_PARAM_INDEX + 1
             s1 == IF has THEN PrepareUserData(s0, it.allocationFlags, r.ud) ELSE s0
             pUserData == IF has THEN PrepareUserDataValue(it.allocationFlags, r.ud)
                          ELSE "null"
         IN  Call(s1, "vmaSetAllocationUserData", it.allocation, VK_NULL_HANDLE,
                  {}, pUserData, TRUE)
    ELSE IssueWarning(s0, "Allocation not found")

ExecuteSetAllocationUserData(s, r) ==
    LET s0 == RegisterFunctionCall(s, "vmaSetAllocationUserData") IN
    IF ~g_UserDataEnabled THEN s0
    ELSE IF ~ParamCountOk(r.count, 2, TRUE)
    THEN ValidateFunctionParameterCount(s0, r.count, 2, TRUE)
    ELSE IF ~r.dec THEN IssueWarning(s0, "Invalid parameters")
    ELSE IF r.id \in DOMAIN s0.p.m_Allocations
    THEN LET it == s0.p.m_Allocations[r.id]
             has == r.count > FIRST_PARAM_INDEX + 1
             s1 == IF has THEN PrepareUserData(s0, it.allocationFlags, r.ud) ELSE s0
             pUserData == IF has THEN PrepareUserDataValue(it.allocationFlags, r.ud)
                          ELSE "null"
         IN  Call(s1, "vmaSetAllocationUserData", it.allocation, VK_NULL_HANDLE,
                  {}, pUserData, TRUE)
    ELSE IssueWarning(s0, "Allocation not found")

\* FindPool, PrepareUserData of a creation record with userDataIndex its last column
ResolveCreate(s, r, userDataIndex) ==
    LET s1 == FindPool(s, r.pool)
    IN  IF r.count > FIRST_PARAM_INDEX + userDataIndex
        THEN PrepareUserData(s1, r.flags, r.ud) ELSE s1

CreateUserData(r, userDataIndex) ==
    IF r.count > FIRST_PARAM_INDEX + userDataIndex
    THEN PrepareUserDataValue(r.flags, r.ud) ELSE "null"

\* ExecuteCreateBuffer leaving the buffer handle out of the entry it registers.
ExecuteCreateBufferDropsBuffer(s, r) ==
    LET s0 == RegisterFunctionCall(s, "vmaCreateBuffer") IN
    IF ~ParamCountOk(r.count, 12, TRUE)
    THEN ValidateFunctionParameterCount(s0, r.count, 12, TRUE)
    ELSE IF ~r.dec THEN IssueWarning(s0, "Invalid parameters")
    ELSE
      LET s1 == RegisterCreateBuffer(ResolveCreate(s0, r, 11), r.usage)
          h == LiveHandle(s1, r.live)
          allocDesc == [allocationFlags |-> r.flags, allocation |-> h,
                        buffer |-> VK_NULL_HANDLE, image |-> VK_NULL_HANDLE]
          s2 == TakeHandle(Call(s1, "vmaCreateBuffer", h, FindPoolHandle(s0, r.pool),
                                r.flags, CreateUserData(r, 11), r.live), r.live)
      IN  AddAllocation(s2, r.id, r.live, allocDesc)

ExecuteCreateBuffer(s, r) ==
    LET s0 == RegisterFunctionCall(s, "vmaCreateBuffer") IN
    IF ~ParamCountOk(r.count, 12, TRUE)
    THEN ValidateFunctionParameterCount(s0, r.count, 12, TRUE)
    ELSE IF ~r.dec THEN IssueWarning(s0, "Invalid parameters")
    ELSE
      LET s1 == RegisterCreateBuffer(ResolveCreate(s0, r, 11), r.usage)
          h == LiveHandle(s1, r.live)
          allocDesc == [allocationFlags |-> r.flags, allocation |-> h,
                        buffer |-> h, image |-> VK_NULL_HANDLE]
          s2 == TakeHandle(Call(s1, "vmaCreateBuffer", h, FindPoolHandle(s0, r.pool),
                                r.flags, CreateUserData(r, 11), r.live), r.live)
      IN  AddAllocation(s2, r.id, r.live, allocDesc)

\* DestroyAllocation without m_Allocations.erase(it).
DestroyAllocationKeepsEntry(s, r) ==
    IF ~ParamCountOk(r.count, 1, FALSE)
    THEN ValidateFunctionParameterCount(s, r.count, 1, FALSE)
    ELSE IF ~r.dec THEN IssueWarning(s, "Invalid parameters")
    ELSE IF r.id = 0 THEN s
    ELSE IF r.id \in DOMAIN s.p.m_Allocations
    THEN Destroy(s, s.p.m_Allocations[r.id])
    ELSE IssueWarning(s, "Allocation not found")

DestroyAllocation(s, r) ==
    IF ~ParamCountOk(r.count, 1, FALSE)
    THEN ValidateFunctionParameterCount(s, r.count, 1, FALSE)
    ELSE IF ~r.dec THEN IssueWarning(s, "Invalid parameters")
    ELSE IF r.id = 0 THEN s
    ELSE IF r.id \in DOMAIN s.p.m_Allocations
    THEN [Destroy(s, s.p.m_Allocations[r.id])
            EXCEPT !.p.m_Allocations = MapErase(@, r.id)]
    ELSE IssueWarning(s, "Allocation not found")

\* ExecuteDestroyBuffer erasing the id from the registry of the pools as well.
ExecuteDestroyBufferBothRegistries(s, r) ==
    [DestroyAllocation(RegisterFunctionCall(s, "vmaDestroyBuffer"), r)
        EXCEPT !.p.m_Pools = MapErase(@, r.id)]

ExecuteDestroyBuffer(s, r) ==
    DestroyAllocation(RegisterFunctionCall(s, "vmaDestroyBuffer"), r)

ExecuteDestroyImage(s, r) ==
    DestroyAllocation(RegisterFunctionCall(s, "vmaDestroyImage"), r)

ExecuteFreeMemory(s, r) ==
    DestroyAllocation(RegisterFunctionCall(s, "vmaFreeMemory"), r)

\* ExecuteCreateImage with the handle of the image kept in both fields of the
\* entry.
ExecuteCreateImageAlsoBuffer(s, r) ==
    LET s0 == RegisterFunctionCall(s, "vmaCreateImage") IN
    IF ~ParamCountOk(r.count, 21, TRUE)
    THEN ValidateFunctionParameterCount(s0, r.count, 21, TRUE)
    ELSE IF ~r.dec THEN IssueWarning(s0, "Invalid parameters")
    ELSE
      LET s1 == RegisterCreateImage(ResolveCreate(s0, r, 20), r.usage, r.tiling)
          h == LiveHandle(s1, r.live)
          allocDesc == [allocationFlags |-> r.flags, allocation |-> h,
                        buffer |-> h, image |-> h]
          s2 == TakeHandle(Call(s1, "vmaCreateImage", h, FindPoolHandle(s0, r.pool),
                                r.flags, CreateUserData(r, 20), r.live), r.live)
      IN  AddAllocation(s2, r.id, r.live, allocDesc)

ExecuteCreateImage(s, r) ==
    LET s0 == RegisterFunctionCall(s, "vmaCreateImage") IN
    IF ~ParamCountOk(r.count, 21, TRUE)
    THEN ValidateFunctionParameterCount(s0, r.count, 21, TRUE)
    ELSE IF ~r.dec THEN IssueWarning(s0, "Invalid parameters")
    ELSE
      LET s1 == RegisterCreateImage(ResolveCreate(s0, r, 20), r.usage, r.tiling)
          h == LiveHandle(s1, r.live)
          allocDesc == [allocationFlags |-> r.flags, allocation |-> h,
                        buffer |-> VK_NULL_HANDLE, image |-> h]
          s2 == TakeHandle(Call(s1, "vmaCreateImage", h, FindPoolHandle(s0, r.pool),
                                r.flags, CreateUserData(r, 20), r.live), r.live)
      IN  AddAllocation(s2, r.id, r.live, allocDesc)

\* ExecuteCreateLostAllocation registering what it created under a nonzero id
\* and doing nothing else with it, instead of handing it to AddAllocation.
ExecuteCreateLostAllocationUnreconciled(s, r) ==
    LET s0 == RegisterFunctionCall(s, "vmaCreateLostAllocation") IN
    IF ~ParamCountOk(r.count, 1, FALSE)
    THEN ValidateFunctionParameterCount(s0, r.count, 1, FALSE)
    ELSE IF ~r.dec THEN IssueWarning(s0, "Invalid parameters")
    ELSE
      LET h == LiveHandle(s0, TRUE)
          allocDesc == [NullAllocation EXCEPT !.allocation = h]
          s1 == RegisterCreateAllocation(
                    TakeHandle(Call1(s0, "vmaCreateLostAllocation", h), TRUE))
      IN  IF r.id # 0
          THEN [s1 EXCEPT !.p.m_Allocations = MapPut(@, r.id, allocDesc)]
          ELSE s1

ExecuteCreateLostAllocation(s, r) ==
    LET s0 == RegisterFunctionCall(s, "vmaCreateLostAllocation") IN
    IF ~ParamCountOk(r.count, 1, FALSE)
    THEN ValidateFunctionParameterCount(s0, r.count, 1, FALSE)
    ELSE IF ~r.dec THEN IssueWarning(s0, "Invalid parameters")
    ELSE
      LET h == LiveHandle(s0, TRUE)
          allocDesc == [NullAllocation EXCEPT !.allocation = h]
          s1 == TakeHandle(Call1(s0, "vmaCreateLostAllocation", h), TRUE)
      IN  AddAllocation(RegisterCreateAllocation(s1), r.id, TRUE, allocDesc)

\* ExecuteAllocateMemory counting the creation only when the live call succeeds.
ExecuteAllocateMemoryCountsSuccess(s, r) ==
    LET s0 == RegisterFunctionCall(s, "vmaAllocateMemory") IN
    IF ~ParamCountOk(r.count, 11, TRUE)
    THEN ValidateFunctionParameterCount(s0, r.count, 11, TRUE)
    ELSE IF ~r.dec THEN IssueWarning(s0, "Invalid parameters")
    ELSE
      LET s1 == IF r.live THEN RegisterCreateAllocation(ResolveCreate(s0, r, 10))
                ELSE ResolveCreate(s0, r, 10)
          h == LiveHandle(s1, r.live)
          allocDesc == [NullAllocation EXCEPT !.allocationFlags = r.flags,
                                              !.allocation = h]
          s2 == TakeHandle(Call(s1, "vmaAllocateMemory", h, FindPoolHandle(s0, r.pool),
                                r.flags, CreateUserData(r, 10), r.live), r.live)
      IN  AddAllocation(s2, r.id, r.live, allocDesc)

ExecuteAllocateMemory(s, r) ==
    LET s0 == RegisterFunctionCall(s, "vmaAllocateMemory") IN
    IF ~ParamCountOk(r.count, 11, TRUE)
    THEN ValidateFunctionParameterCount(s0, r.count, 11, TRUE)
    ELSE IF ~r.dec THEN IssueWarning(s0, "Invalid parameters")
    ELSE
      LET s1 == RegisterCreateAllocation(ResolveCreate(s0, r, 10))
          h == LiveHandle(s1, r.live)
          allocDesc == [NullAllocation EXCEPT !.allocationFlags = r.flags,
                                              !.allocation = h]
          s2 == TakeHandle(Call(s1, "vmaAllocateMemory", h, FindPoolHandle(s0, r.pool),
                                r.flags, CreateUserData(r, 10), r.live), r.live)
      IN  AddAllocation(s2, r.id, r.live, allocDesc)

\* The handler with the flag set inside if(IssueWarning()), next to the printf.
ExecuteAllocateMemoryForBufferOrImageFlagWhenShown(s, r, objType) ==
    LET s0 == RegisterFunctionCall(s, IF objType = "BUFFER"
                                      THEN "vmaAllocateMemoryForBuffer"
                                      ELSE "vmaAllocateMemoryForImage") IN
    IF ~ParamCountOk(r.count, 13, TRUE)
    THEN ValidateFunctionParameterCount(s0, r.count, 13, TRUE)
    ELSE IF ~r.dec THEN IssueWarning(s0, "Invalid parameters")
    ELSE
      LET s1 == ResolveCreate(s0, r, 12)
          flags == IF r.reqDed \/ r.prefDed
                   THEN r.flags \cup {DEDICATED_MEMORY_BIT} ELSE r.flags
          s2 == IF ~s1.p.m_AllocateForBufferImageWarningIssued
                THEN [IssueWarning(s1, "cannot be replayed accurately")
                        EXCEPT !.p.m_AllocateForBufferImageWarningIssued =
                                   IssueWarningShows(s1.p.m_WarningCount)]
                ELSE s1
          s3 == RegisterCreateAllocation(s2)
          h == LiveHandle(s3, r.live)
          allocDesc == [NullAllocation EXCEPT !.allocationFlags = flags,
                                              !.allocation = h]
          s4 == TakeHandle(Call(s3, "vmaAllocateMemory", h, FindPoolHandle(s0, r.pool),
                                flags, CreateUserData(r, 12), r.live), r.live)
      IN  AddAllocation(s4, r.id, r.live, allocDesc)

\* The handler asking for dedicated memory only when the record requires it.
ExecuteAllocateMemoryForBufferOrImageRequiredOnly(s, r, objType) ==
    LET s0 == RegisterFunctionCall(s, IF objType = "BUFFER"
                                      THEN "vmaAllocateMemoryForBuffer"
                                      ELSE "vmaAllocateMemoryForImage") IN
    IF ~ParamCountOk(r.count, 13, TRUE)
    THEN ValidateFunctionParameterCount(s0, r.count, 13, TRUE)
    ELSE IF ~r.dec THEN IssueWarning(s0, "Invalid parameters")
    ELSE
      LET s1 == ResolveCreate(s0, r, 12)
          flags == IF r.reqDed
                   THEN r.flags \cup {DEDICATED_MEMORY_BIT} ELSE r.flags
          s2 == IF ~s1.p.m_AllocateForBufferImageWarningIssued
                THEN [IssueWarning(s1, "cannot be replayed accurately")
                        EXCEPT !.p.m_AllocateForBufferImageWarningIssued = TRUE]
                ELSE s1
          s3 == RegisterCreateAllocation(s2)
          h == LiveHandle(s3, r.live)
          allocDesc == [NullAllocation EXCEPT !.allocationFlags = flags,
                                              !.allocation = h]
          s4 == TakeHandle(Call(s3, "vmaAllocateMemory", h, FindPoolHandle(s0, r.pool),
                                flags, CreateUserData(r, 12), r.live), r.live)
      IN  AddAllocation(s4, r.id, r.live, allocDesc)

\* objType only selects the call counter
ExecuteAllocateMemoryForBufferOrImage(s, r, objType) ==
    LET s0 == RegisterFunctionCall(s, IF objType = "BUFFER"
                                      THEN "vmaAllocateMemoryForBuffer"
                                      ELSE "vmaAllocateMemoryForImage") IN
    IF ~ParamCountOk(r.count, 13, TRUE)
    THEN ValidateFunctionParameterCount(s0, r.count, 13, TRUE)
    ELSE IF ~r.dec THEN IssueWarning(s0, "Invalid parameters")
    ELSE
      LET s1 == ResolveCreate(s0, r, 12)
          flags == IF r.reqDed \/ r.prefDed
                   THEN r.flags \cup {DEDICATED_MEMORY_BIT} ELSE r.flags
          s2 == IF ~s1.p.m_AllocateForBufferImageWarningIssued
                THEN [IssueWarning(s1, "cannot be replayed accurately")
                        EXCEPT !.p.m_AllocateForBufferImageWarningIssued = TRUE]
                ELSE s1
          s3 == RegisterCreateAllocation(s2)
          h == LiveHandle(s3, r.live)
          allocDesc == [NullAllocation EXCEPT !.allocationFlags = flags,
                                              !.allocation = h]
          s4 == TakeHandle(Call(s3, "vmaAllocateMemory", h, FindPoolHandle(s0, r.pool),
                                flags, CreateUserData(r, 12), r.live), r.live)
      IN  AddAllocation(s4, r.id, r.live, allocDesc)

\* ExecuteOnAllocation looking the id up with the map's operator[], which
\* inserts an empty entry for an id that is absent.
ExecuteOnAllocationInserts(s, r, fn, expectedParamCount, skipsZero) ==
    LET s0 == RegisterFunctionCall(s, fn) IN
    IF ~ParamCountOk(r.count, expectedParamCount, FALSE)
    THEN ValidateFunctionParameterCount(s0, r.count, expectedParamCount, FALSE)
    ELSE IF ~r.dec THEN IssueWarning(s0, "Invalid parameters")
    ELSE IF skipsZero /\ r.id = 0 THEN s0
    ELSE IF r.id \in DOMAIN s0.p.m_Allocations
    THEN IF s0.p.m_Allocations[r.id].allocation # VK_NULL_HANDLE
         THEN Call(s0, fn, s0.p.m_Allocations[r.id].allocation, VK_NULL_HANDLE,
                   {}, "null", IF fn = "vmaMapMemory" THEN r.live ELSE TRUE)
         ELSE IssueWarning(s0, "allocation is null")
    ELSE [IssueWarning(s0, "Allocation not found")
            EXCEPT !.p.m_Allocations = MapPut(@, r.id, NullAllocation)]

\* Map, Unmap, Flush, Invalidate: the id 0 is skipped, a null allocation is warned about
ExecuteOnAllocation(s, r, fn, expectedParamCount, skipsZero) ==
    LET s0 == RegisterFunctionCall(s, fn) IN
    IF ~ParamCountOk(r.count, expectedParamCount, FALSE)
    THEN ValidateFunctionParameterCount(s0, r.count, expectedParamCount, FALSE)
    ELSE IF ~r.dec THEN IssueWarning(s0, "Invalid parameters")
    ELSE IF skipsZero /\ r.id = 0 THEN s0
    ELSE IF r.id \in DOMAIN s0.p.m_Allocations
    THEN IF s0.p.m_Allocations[r.id].allocation # VK_NULL_HANDLE
         THEN LET s1 == Call(s0, fn, s0.p.m_Allocations[r.id].allocation,
                             VK_NULL_HANDLE, {}, "null",
                             IF fn = "vmaMapMemory" THEN r.live ELSE TRUE)
              IN  IF fn = "vmaMapMemory" /\ ~r.live
                  THEN Printf(s1, "vmaMapMemory failed") ELSE s1
         ELSE IssueWarning(s0, "allocation is null")
    ELSE IssueWarning(s0, "Allocation not found")

ExecuteMapMemory(s, r) == ExecuteOnAllocation(s, r, "vmaMapMemory", 1, TRUE)
ExecuteUnmapMemory(s, r) == ExecuteOnAllocation(s, r, "vmaUnmapMemory", 1, TRUE)
ExecuteFlushAllocation(s, r) == ExecuteOnAllocation(s, r, "vmaFlushAllocation", 3, TRUE)
ExecuteInvalidateAllocation(s, r) ==
    ExecuteOnAllocation(s, r, "vmaInvalidateAllocation", 3, TRUE)
ExecuteTouchAllocation(s, r) == ExecuteOnAllocation(s, r, "vmaTouchAllocation", 1, FALSE)
ExecuteGetAllocationInfo(s, r) ==
    ExecuteOnAllocation(s, r, "vmaGetAllocationInfo", 1, FALSE)

\* ExecuteMakePoolAllocationsLost erasing the pool it has emptied.
ExecuteMakePoolAllocationsLostErases(s, r) ==
    LET s0 == RegisterFunctionCall(s, "vmaMakePoolAllocationsLost") IN
    IF ~ParamCountOk(r.count, 1, FALSE)
    THEN ValidateFunctionParameterCount(s0, r.count, 1, FALSE)
    ELSE IF ~r.dec THEN IssueWarning(s0, "Invalid parameters")
    ELSE IF r.id = 0 THEN s0
    ELSE IF r.id \in DOMAIN s0.p.m_Pools
    THEN [Call1(s0, "vmaMakePoolAllocationsLost", s0.p.m_Pools[r.id].pool)
            EXCEPT !.p.m_Pools = MapErase(@, r.id)]
    ELSE IssueWarning(s0, "Pool not found")

ExecuteMakePoolAllocationsLost(s, r) ==
    LET s0 == RegisterFunctionCall(s, "vmaMakePoolAllocationsLost") IN
    IF ~ParamCountOk(r.count, 1, FALSE)
    THEN ValidateFunctionParameterCount(s0, r.count, 1, FALSE)
    ELSE IF ~r.dec THEN IssueWarning(s0, "Invalid parameters")
    ELSE IF r.id = 0 THEN s0
    ELSE IF r.id \in DOMAIN s0.p.m_Pools
    THEN Call1(s0, "vmaMakePoolAllocationsLost", s0.p.m_Pools[r.id].pool)
    ELSE IssueWarning(s0, "Pool not found")

\* Dispatch without the warning about a function name it does not know.
DispatchUnknownSilently(s, r) ==
    CASE r.fn \in {"vmaCreateAllocator", "vmaDestroyAllocator"} ->
             ValidateFunctionParameterCount(s, r.count, 0, FALSE)
      [] r.fn = "vmaCreatePool" -> ExecuteCreatePool(s, r)
      [] r.fn = "vmaDestroyPool" -> ExecuteDestroyPool(s, r)
      [] r.fn = "vmaSetAllocationUserData" -> ExecuteSetAllocationUserData(s, r)
      [] r.fn = "vmaCreateBuffer" -> ExecuteCreateBuffer(s, r)
      [] r.fn = "vmaDestroyBuffer" -> ExecuteDestroyBuffer(s, r)
      [] r.fn = "vmaCreateImage" -> ExecuteCreateImage(s, r)
      [] r.fn = "vmaDestroyImage" -> ExecuteDestroyImage(s, r)
      [] r.fn = "vmaFreeMemory" -> ExecuteFreeMemory(s, r)
      [] r.fn = "vmaCreateLostAllocation" -> ExecuteCreateLostAllocation(s, r)
      [] r.fn = "vmaAllocateMemory" -> ExecuteAllocateMemory(s, r)
      [] r.fn = "vmaAllocateMemoryForBuffer" ->
             ExecuteAllocateMemoryForBufferOrImage(s, r, "BUFFER")
      [] r.fn = "vmaAllocateMemoryForImage" ->
             ExecuteAllocateMemoryForBufferOrImage(s, r, "IMAGE")
      [] r.fn = "vmaMapMemory" -> ExecuteMapMemory(s, r)
      [] r.fn = "vmaUnmapMemory" -> ExecuteUnmapMemory(s, r)
      [] r.fn = "vmaFlushAllocation" -> ExecuteFlushAllocation(s, r)
      [] r.fn = "vmaInvalidateAllocation" -> ExecuteInvalidateAllocation(s, r)
      [] r.fn = "vmaTouchAllocation" -> ExecuteTouchAllocation(s, r)
      [] r.fn = "vmaGetAllocationInfo" -> ExecuteGetAllocationInfo(s, r)
      [] r.fn = "vmaMakePoolAllocationsLost" -> ExecuteMakePoolAllocationsLost(s, r)
      [] OTHER -> s

\* The chain of StrRangeEq(functionName, ...) of Player::ExecuteLine
Dispatch(s, r) ==
    CASE r.fn \in {"vmaCreateAllocator", "vmaDestroyAllocator"} ->
             ValidateFunctionParameterCount(s, r.count, 0, FALSE)
      [] r.fn = "vmaCreatePool" -> ExecuteCreatePool(s, r)
      [] r.fn = "vmaDestroyPool" -> ExecuteDestroyPool(s, r)
      [] r.fn = "vmaSetAllocationUserData" -> ExecuteSetAllocationUserData(s, r)
      [] r.fn = "vmaCreateBuffer" -> ExecuteCreateBuffer(s, r)
      [] r.fn = "vmaDestroyBuffer" -> ExecuteDestroyBuffer(s, r)
      [] r.fn = "vmaCreateImage" -> ExecuteCreateImage(s, r)
      [] r.fn = "vmaDestroyImage" -> ExecuteDestroyImage(s, r)
      [] r.fn = "vmaFreeMemory" -> ExecuteFreeMemory(s, r)
      [] r.fn = "vmaCreateLostAllocation" -> ExecuteCreateLostAllocation(s, r)
      [] r.fn = "vmaAllocateMemory" -> ExecuteAllocateMemory(s, r)
      [] r.fn = "vmaAllocateMemoryForBuffer" ->
             ExecuteAllocateMemoryForBufferOrImage(s, r, "BUFFER")
      [] r.fn = "vmaAllocateMemoryForImage" ->
             ExecuteAllocateMemoryForBufferOrImage(s, r, "IMAGE")
      [] r.fn = "vmaMapMemory" -> ExecuteMapMemory(s, r)
      [] r.fn = "vmaUnmapMemory" -> ExecuteUnmapMemory(s, r)
      [] r.fn = "vmaFlushAllocation" -> ExecuteFlushAllocation(s, r)
      [] r.fn = "vmaInvalidateAllocation" -> ExecuteInvalidateAllocation(s, r)
      [] r.fn = "vmaTouchAllocation" -> ExecuteTouchAllocation(s, r)
      [] r.fn = "vmaGetAllocationInfo" -> ExecuteGetAllocationInfo(s, r)
      [] r.fn = "vmaMakePoolAllocationsLost" -> ExecuteMakePoolAllocationsLost(s, r)
      [] OTHER -> IssueWarning(s, "Unknown function")

\* ExecuteLineHeader without the comparison with m_VmaFrameIndex.
ExecuteLineHeaderAlwaysNotifies(s, r) ==
    LET s1 == IF r.thread # BAD
              THEN [s EXCEPT !.p.m_Threads =
                        MapPut(@, r.thread,
                               [callCount |-> IF r.thread \in DOMAIN @
                                              THEN @[r.thread].callCount + 1 ELSE 1])]
              ELSE IssueWarning(s, "Incorrect thread ID")
        s2 == [s1 EXCEPT !.p.m_LastLineTimeStr = r.time]
    IN  IF r.frame # BAD
        THEN [Call1(s2, "vmaSetCurrentFrameIndex", r.frame)
                EXCEPT !.p.m_VmaFrameIndex = r.frame]
        ELSE IssueWarning(s2, "Incorrect frame index")

\* Player::ExecuteLine up to the dispatch: thread id, time, frame index
ExecuteLineHeader(s, r) ==
    LET s1 == IF r.thread # BAD
              THEN [s EXCEPT !.p.m_Threads =
                        MapPut(@, r.thread,
                               [callCount |-> IF r.thread \in DOMAIN @
                                              THEN @[r.thread].callCount + 1 ELSE 1])]
              ELSE IssueWarning(s, "Incorrect thread ID")
        s2 == [s1 EXCEPT !.p.m_LastLineTimeStr = r.time]
    IN  IF r.frame # BAD
        THEN IF r.frame # s2.p.m_VmaFrameIndex
             THEN [Call1(s2, "vmaSetCurrentFrameIndex", r.frame)
                     EXCEPT !.p.m_VmaFrameIndex = r.frame]
             ELSE s2
        ELSE IssueWarning(s2, "Incorrect frame index")

\* Player::ExecuteLine taking a line of three columns for one with a header.
PlayerExecuteLineOneShort(s, r) ==
    IF r.count >= FIRST_PARAM_INDEX - 1
    THEN Dispatch(ExecuteLineHeader(s, r), r)
    ELSE IssueWarning(s, "Too few columns")

PlayerExecuteLine(s, r) ==
    IF r.count >= FIRST_PARAM_INDEX
    THEN Dispatch(ExecuteLineHeader(s, r), r)
    ELSE IssueWarning(s, "Too few columns")


RECURSIVE Perms(_)
\* every order in which a range-for may visit the keys of a std::unordered_map
Perms(S) ==
    IF S = {} THEN {<< >>}
    ELSE UNION {{<<x>> \o q : q \in Perms(S \ {x})} : x \in S}

\* The sweep of the allocations left, destroying each of them twice.
RECURSIVE DestroyAllAgain(_, _)
DestroyAllAgain(s, order) ==
    IF order = << >> THEN s
    ELSE DestroyAllAgain(Destroy(Destroy(s, s.p.m_Allocations[Head(order)]),
                                 s.p.m_Allocations[Head(order)]), Tail(order))

RECURSIVE DestroyAll(_, _)
DestroyAll(s, order) ==
    IF order = << >> THEN s
    ELSE DestroyAll(Destroy(s, s.p.m_Allocations[Head(order)]), Tail(order))

\* The sweep of the pools left without vmaDestroyPool.
DestroyAllPoolsForgets(s, order) == s

RECURSIVE DestroyAllPools(_, _)
DestroyAllPools(s, order) ==
    IF order = << >> THEN s
    ELSE DestroyAllPools(Call1(s, "vmaDestroyPool", s.p.m_Pools[Head(order)].pool),
                         Tail(order))

\* FinalizeVulkan with the two sweeps exchanged.
FinalizeVulkanPoolsFirst(s, allocOrder, poolOrder) ==
    LET s1 == [DestroyAllPools(s, poolOrder) EXCEPT !.p.m_Pools = << >>]
        s2 == [DestroyAll(s1, allocOrder) EXCEPT !.p.m_Allocations = << >>]
    IN  IF s2.p.m_Allocator # VK_NULL_HANDLE
        THEN [Call1(s2, "vmaDestroyAllocator", s2.p.m_Allocator)
                EXCEPT !.p.m_Allocator = VK_NULL_HANDLE]
        ELSE s2

\* CLEANUP_LEAKED_OBJECTS is true
FinalizeVulkan(s, allocOrder, poolOrder) ==
    LET s0 == IF s.p.m_Allocations # << >>
              THEN Printf(s, "Allocations not destroyed") ELSE s
        s1 == [DestroyAll(s0, allocOrder) EXCEPT !.p.m_Allocations = << >>]
        s2 == [DestroyAllPools(IF s1.p.m_Pools # << >>
                               THEN Printf(s1, "Custom pools not destroyed") ELSE s1,
                               poolOrder) EXCEPT !.p.m_Pools = << >>]
    IN  IF s2.p.m_Allocator # VK_NULL_HANDLE
        THEN [Call1(s2, "vmaDestroyAllocator", s2.p.m_Allocator)
                EXCEPT !.p.m_Allocator = VK_NULL_HANDLE]
        ELSE s2

\* what Player::~Player prints after FinalizeVulkan, -1 for nothing
SuppressedWarnings(p) ==
    IF g_Verbosity < VERBOSITY_MAXIMUM /\ p.m_WarningCount > MAX_WARNINGS_TO_SHOW
    THEN p.m_WarningCount - MAX_WARNINGS_TO_SHOW ELSE -1

----------------------------------------------------------------------------
(* Records *)

NoRecord ==
    [ count |-> 0, thread |-> 1, time |-> "", frame |-> 0, fn |-> "", dec |-> TRUE,
      id |-> 0, pool |-> 0, flags |-> {}, ud |-> 1, live |-> TRUE, usage |-> {},
      tiling |-> 0, reqDed |-> FALSE, prefDed |-> FALSE ]

\* A well-formed record of function fn with count columns about the object id.
Rec(fn, count, id) ==
    [NoRecord EXCEPT !.fn = fn, !.count = count, !.id = id, !.time = "0.0"]

CreateAllocationFns ==
    { "vmaCreateBuffer", "vmaCreateImage", "vmaAllocateMemory",
      "vmaAllocateMemoryForBuffer", "vmaAllocateMemoryForImage",
      "vmaCreateLostAllocation" }
DestroyAllocationFns == { "vmaDestroyBuffer", "vmaDestroyImage", "vmaFreeMemory" }
UseAllocationFns ==
    { "vmaMapMemory", "vmaUnmapMemory", "vmaFlushAllocation", "vmaInvalidateAllocation",
      "vmaTouchAllocation", "vmaGetAllocationInfo", "vmaSetAllocationUserData" }

\* The least column count a record of function fn passes validation with.
MinCount(fn) ==
    CASE fn = "vmaCreatePool" -> 11
      [] fn = "vmaSetAllocationUserData" -> 5
      [] fn = "vmaCreateBuffer" -> 15
      [] fn = "vmaCreateImage" -> 24
      [] fn = "vmaAllocateMemory" -> 14
      [] fn \in {"vmaAllocateMemoryForBuffer", "vmaAllocateMemoryForImage"} -> 16
      [] fn \in {"vmaFlushAllocation", "vmaInvalidateAllocation"} -> 7
      [] fn \in {"vmaCreateAllocator", "vmaDestroyAllocator"} -> 4
      [] OTHER -> 5

\* The functions whose last parameter is unbounded (lastUnbound).
UnboundFns ==
    { "vmaSetAllocationUserData", "vmaCreateBuffer", "vmaCreateImage",
      "vmaAllocateMemory", "vmaAllocateMemoryForBuffer", "vmaAllocateMemoryForImage" }

\* A record with a header, of a counted function, with the columns the function
\* takes, all of which convert.
WellFormed(r) ==
    /\ r.fn \in VMA_FUNCTION_NAMES
    /\ IF r.fn \in UnboundFns THEN r.count >= MinCount(r.fn)
       ELSE r.count = MinCount(r.fn)
    /\ r.dec

FileOk == [state |-> "ok", line1 |-> TRUE, versionOk |-> TRUE,
           major |-> U32Of(1), minor |-> U32Of(0)]

----------------------------------------------------------------------------
(* ProcessFile *)

Machine == [p |-> player, calls |-> << >>, warns |-> << >>, shown |-> shown,
            next |-> nextHandle, printed |-> << >>]

\* The last creation or destroy record of each original id, read off the records
\* alone: life.alloc for allocation ids, life.pool for pool ids.
LifeOf(m, r, createFns, destroyFns) ==
    IF WellFormed(r) /\ r.id # 0
    THEN IF r.fn \in createFns THEN MapPut(m, r.id, "created")
         ELSE IF r.fn \in destroyFns /\ r.id \in DOMAIN m /\ m[r.id] = "created"
              THEN MapPut(m, r.id, "destroyed")
              ELSE m
    ELSE m

LifeAfter(r) ==
    [ alloc |-> LifeOf(life.alloc, r, CreateAllocationFns, DestroyAllocationFns),
      pool |-> LifeOf(life.pool, r, {"vmaCreatePool"}, {"vmaDestroyPool"}) ]

NoLife == [alloc |-> << >>, pool |-> << >>]

\* The entry points of the allocator that create an object, destroy one, and
\* work on one.
CreateEntryPoints ==
    { "vmaCreateBuffer", "vmaCreateImage", "vmaAllocateMemory",
      "vmaCreateLostAllocation", "vmaCreatePool" }
DestroyEntryPoints ==
    { "vmaDestroyBuffer", "vmaDestroyImage", "vmaFreeMemory", "vmaDestroyPool" }
UseEntryPoints == UseAllocationFns \cup {"vmaMakePoolAllocationsLost"}

\* No live handle has been handed out.
NoHandles ==
    [ created |-> {}, destroyed |-> {}, again |-> {}, stale |-> {}, overwritten |-> {} ]

\* The calls cs, in their order, told of the handles: those a creation call
\* returned (created), those passed to a destroy entry point (destroyed), passed
\* to one once more (again), or passed to another entry point after that (stale).
RECURSIVE TrackCalls(_, _)
TrackCalls(h, cs) ==
    IF cs = << >> THEN h
    ELSE LET c == Head(cs)
             h1 == IF c.fn \in CreateEntryPoints /\ c.res
                   THEN [h EXCEPT !.created = @ \cup {c.h}]
                   ELSE IF c.fn \in DestroyEntryPoints /\ c.h # VK_NULL_HANDLE
                   THEN [h EXCEPT !.destroyed = @ \cup {c.h},
                                  !.again = IF c.h \in h.destroyed
                                            THEN @ \cup {c.h} ELSE @]
                   ELSE IF c.fn \in UseEntryPoints /\ c.h \in h.destroyed
                   THEN [h EXCEPT !.stale = @ \cup {c.h}]
                   ELSE h
         IN  TrackCalls(h1, Tail(cs))

\* The live handles of the entries of registry old that registry new holds
\* another entry for, under the same original id.
Replaced(old, new, field) ==
    {old[id][field] : id \in {x \in DOMAIN old \cap DOMAIN new : old[x] # new[x]}}
    \ {VK_NULL_HANDLE}

\* handles after the step that took the machine to state s.
HandlesAfter(s) ==
    [TrackCalls(handles, s.calls) EXCEPT
        !.overwritten = @ \cup Replaced(player.m_Allocations, s.p.m_Allocations,
                                        "allocation")
                          \cup Replaced(player.m_Pools, s.p.m_Pools, "pool")]

InitWithRanges(files, verbosities, userData, iterationCounts, lineRanges) ==
    /\ pc = "open"
    /\ file \in files
    /\ g_Verbosity \in verbosities
    /\ g_UserDataEnabled \in userData
    /\ g_IterationCount \in iterationCounts
    /\ g_FileVersion = U32Of(0)
    /\ iter = 0
    /\ iterResults = << >>
    /\ exitStatus = 0
    /\ player = NewPlayer
    /\ nlines = 0
    /\ rec = NoRecord
    /\ calls = << >>
    /\ warns = << >>
    /\ shown = {}
    /\ suppressedReport = -1
    /\ nextHandle = 0
    /\ life = NoLife
    /\ g_LineRanges \in lineRanges
    /\ lineSplit = 0
    /\ executed = << >>
    /\ printed = << >>
    /\ handles = NoHandles

\* The start of a run without --Lines.
InitWith(files, verbosities, userData, iterationCounts) ==
    InitWithRanges(files, verbosities, userData, iterationCounts, {{}})

\* ProcessFile(): the file is opened and read
OpenFile ==
    /\ pc = "open"
    /\ IF file.state = "ok"
       THEN /\ pc' = "start"
            /\ exitStatus' = exitStatus
       ELSE /\ pc' = "exit"
            /\ exitStatus' = RESULT_ERROR_SOURCE_FILE
    /\ UNCHANGED <<file, g_Verbosity, g_UserDataEnabled, g_IterationCount, g_FileVersion,
                   iter, iterResults, player, nlines, rec, calls, warns, shown,
                   suppressedReport, nextHandle, life, g_LineRanges, lineSplit, executed,
          printed, handles>>

\* ProcessFile(i, ...) returned result: the loop of ProcessFile() goes on, or ends
\* and ProcessFile() returns its own result, which no iteration has assigned.
Returned(result) ==
    /\ iterResults' = Append(iterResults, result)
    /\ iter' = iter + 1
    /\ pc' = IF iter + 1 < g_IterationCount THEN "start" ELSE "exit"
    /\ exitStatus' = exitStatus

\* ProcessFile(i, ...) with a player that outlives the iteration: the player of
\* the iteration before is initialised again instead of a new one.
BeginIterationKeepsPlayer ==
    /\ pc = "start"
    /\ \E initOk \in BOOLEAN :
         LET formatOk == file.line1
             versionOk == formatOk /\ ParseFileVersionOk(file)
             version == IF versionOk THEN ParseFileVersion(file) ELSE g_FileVersion
             loaded == versionOk /\ ValidateFileVersion(version)
         IN  /\ g_FileVersion' = version
             /\ IF loaded /\ initOk
                THEN /\ pc' = "playing"
                     /\ player' = [player EXCEPT !.m_Allocator = 1]
                     /\ UNCHANGED <<iter, iterResults, exitStatus>>
                ELSE /\ Returned(IF loaded THEN RESULT_ERROR_VULKAN
                                 ELSE RESULT_ERROR_FORMAT)
                     /\ player' = player
             /\ lineSplit' = IF loaded THEN 2 ELSE 0
    /\ nlines' = 0
    /\ rec' = NoRecord
    /\ calls' = << >>
    /\ warns' = << >>
    /\ shown' = {}
    /\ suppressedReport' = -1
    /\ nextHandle' = 0
    /\ life' = NoLife
    /\ executed' = << >>
    /\ printed' = << >>
    /\ handles' = NoHandles
    /\ UNCHANGED <<file, g_Verbosity, g_UserDataEnabled, g_IterationCount, g_LineRanges>>

\* ProcessFile(i, ...) down to the playback loop
BeginIteration ==
    /\ pc = "start"
    /\ \E initOk \in BOOLEAN :
         LET formatOk == file.line1
             versionOk == formatOk /\ ParseFileVersionOk(file)
             version == IF versionOk THEN ParseFileVersion(file) ELSE g_FileVersion
             loaded == versionOk /\ ValidateFileVersion(version)
         IN  /\ g_FileVersion' = version
             /\ IF loaded /\ initOk
                THEN /\ pc' = "playing"
                     /\ player' = [NewPlayer EXCEPT !.m_Allocator = 1]
                     /\ UNCHANGED <<iter, iterResults, exitStatus>>
                ELSE /\ Returned(IF loaded THEN RESULT_ERROR_VULKAN
                                 ELSE RESULT_ERROR_FORMAT)
                     /\ player' = NewPlayer
             /\ lineSplit' = IF loaded THEN 2 ELSE 0
    /\ nlines' = 0
    /\ rec' = NoRecord
    /\ calls' = << >>
    /\ warns' = << >>
    /\ shown' = {}
    /\ suppressedReport' = -1
    /\ nextHandle' = 0
    /\ life' = NoLife
    /\ executed' = << >>
    /\ printed' = << >>
    /\ handles' = NoHandles
    /\ UNCHANGED <<file, g_Verbosity, g_UserDataEnabled, g_IterationCount, g_LineRanges>>

\* player.ExecuteLine(lineSplit.GetNextLineIndex(), line)
ExecuteLine(r, maxLines) ==
    /\ pc = "playing"
    /\ nlines < maxLines
    /\ LET s == PlayerExecuteLine(Machine, r)
       IN  /\ player' = s.p
           /\ calls' = s.calls
           /\ warns' = s.warns
           /\ shown' = s.shown
           /\ printed' = s.printed
           /\ nextHandle' = s.next
           /\ handles' = HandlesAfter(s)
    /\ rec' = r
    /\ nlines' = nlines + 1
    /\ life' = LifeAfter(r)
    /\ lineSplit' = lineSplit + 1
    /\ executed' = Append(executed, lineSplit + 1)
    /\ UNCHANGED <<pc, file, g_Verbosity, g_UserDataEnabled, g_IterationCount,
                   g_FileVersion, iter, iterResults, exitStatus, suppressedReport,
                   g_LineRanges>>

\* The playback loop ends: ProcessFile(i, ...) returns 0 and player is destroyed.
EndIteration ==
    /\ pc = "playing"
    /\ \E allocOrder \in Perms(DOMAIN player.m_Allocations),
          poolOrder \in Perms(DOMAIN player.m_Pools) :
         LET s == FinalizeVulkan(Machine, allocOrder, poolOrder)
         IN  /\ player' = s.p
             /\ calls' = s.calls
             /\ warns' = s.warns
             /\ shown' = s.shown
             /\ printed' = s.printed
             /\ nextHandle' = s.next
             /\ handles' = HandlesAfter(s)
    /\ suppressedReport' = SuppressedWarnings(player)
    /\ Returned(0)
    /\ UNCHANGED <<file, g_Verbosity, g_UserDataEnabled, g_IterationCount, g_FileVersion,
                   nlines, rec, life, g_LineRanges, lineSplit, executed>>


----------------------------------------------------------------------------
(* Creation records and their reconciliation *)

MaxLines == 2
MaxAllocId == 2
MaxPoolId == 1

\* The id the original run reports for a failed creation, and one other id.
ZeroAndOne == {0, 1}

Records ==
    {[Rec("vmaCreateBuffer", 15, id) EXCEPT !.live = l] :
        id \in 0..MaxAllocId, l \in BOOLEAN}
    \cup {[Rec("vmaCreateBuffer", 15, id) EXCEPT !.pool = pl, !.live = l] :
        id \in ZeroAndOne, pl \in 1..MaxPoolId, l \in BOOLEAN}
    \cup {[Rec("vmaAllocateMemory", 14, id) EXCEPT !.live = l] :
        id \in 0..MaxAllocId, l \in BOOLEAN}
    \cup {[Rec("vmaCreatePool", 11, id) EXCEPT !.live = l] :
        id \in 0..MaxPoolId, l \in BOOLEAN}
    \cup {[Rec(fn, MinCount(fn), id) EXCEPT !.live = l] :
        fn \in {"vmaCreateImage", "vmaAllocateMemoryForBuffer"},
        id \in ZeroAndOne, l \in BOOLEAN}
    \cup {Rec(fn, MinCount(fn), id) :
        fn \in {"vmaAllocateMemoryForImage", "vmaCreateLostAllocation"},
        id \in ZeroAndOne}
    \cup {[Rec("vmaCreateBuffer", 16, id) EXCEPT !.ud = BAD, !.thread = th, !.live = l] :
        id \in ZeroAndOne, th \in {BAD, 1}, l \in BOOLEAN}
    \cup {Rec(fn, 5, 1) : fn \in DestroyAllocationFns \cup {"vmaDestroyPool"}}

Init == InitWith({FileOk}, {VERBOSITY_DEFAULT}, {TRUE}, {1})

Next ==
    \/ OpenFile
    \/ BeginIteration
    \/ \E r \in Records : ExecuteLine(r, MaxLines)
    \/ EndIteration

Spec == Init /\ [][Next]_vars

----------------------------------------------------------------------------
(* What the claims speak of *)

\* The step is one record handed to Player::ExecuteLine.
StepLine == pc = "playing" /\ nlines' = nlines + 1
\* The last step was one record handed to Player::ExecuteLine.
AfterLine == pc = "playing" /\ nlines > 0

CountOf(seq, x) == Cardinality({i \in DOMAIN seq : seq[i] = x})
CallsTo(cs, fns) == SelectSeq(cs, LAMBDA c : c.fn \in fns)

DivergenceKinds ==
    { "failed, while originally succeeded", "succeeded, originally failed",
      "failed, originally also failed" }

\* A well-formed creation record of an allocation with original id zero / nonzero
AllocCreation(r) == r.fn \in CreateAllocationFns /\ WellFormed(r)

(* C1: after a well-formed allocation-creation record with nonzero id X the
   registry maps X to an entry; when the live call succeeded the entry holds the
   live handle and no divergence warning was counted; when it failed the entry
   holds no handle and exactly one 'failed, while originally succeeded' warning
   was counted. *)
C1_ReconcileNonzero ==
    (AfterLine /\ AllocCreation(rec) /\ rec.id # 0) =>
        /\ rec.id \in DOMAIN player.m_Allocations
        /\ LET e == player.m_Allocations[rec.id]
               cs == CallsTo(calls, CreateEntryPoints)
           IN  /\ Len(cs) = 1
               /\ IF cs[1].res
                  THEN /\ cs[1].h # VK_NULL_HANDLE
                       /\ e.allocation = cs[1].h
                       /\ \A k \in DivergenceKinds : CountOf(warns, k) = 0
                  ELSE /\ e.allocation = VK_NULL_HANDLE
                       /\ e.buffer = VK_NULL_HANDLE
                       /\ e.image = VK_NULL_HANDLE
                       /\ CountOf(warns, "failed, while originally succeeded") = 1
                       /\ \A k \in DivergenceKinds \ {"failed, while originally succeeded"} :
                             CountOf(warns, k) = 0

\* A creation with id 2 has failed live while id 2 was not registered before.
C1_Witness ==
    /\ AfterLine /\ AllocCreation(rec) /\ rec.id = 2 /\ ~rec.live
    /\ 2 \in DOMAIN player.m_Allocations
    /\ player.m_Allocations[2].allocation = VK_NULL_HANDLE
    /\ warns = <<"failed, while originally succeeded">>

\* The live outcome of the creation call of the step and what was destroyed in it
CreateCalls == CallsTo(calls', CreateEntryPoints)
DestroyCalls == CallsTo(calls', DestroyEntryPoints)

\* Warnings a creation record may count before it reaches the reconciliation
BeforeReconcileKinds ==
    { "Incorrect thread ID", "Incorrect frame index", "Pool not found",
      "Invalid pUserData", "cannot be replayed accurately" }

(* C2: a well-formed allocation-creation record with id 0 leaves the registry
   unchanged and counts exactly one reconciliation warning, next to which only
   warnings about its header, its pool id and its user data are counted; a
   live object that was created is destroyed exactly once in the same record,
   and nothing is destroyed when the live call failed. *)
C2_ReconcileZero ==
    [][ (StepLine /\ AllocCreation(rec') /\ rec'.id = 0) =>
          /\ player'.m_Allocations = player.m_Allocations
          /\ Len(CreateCalls) = 1
          /\ LET kind == IF CreateCalls[1].res THEN "succeeded, originally failed"
                         ELSE "failed, originally also failed"
             IN  /\ CountOf(warns', kind) = 1
                 /\ \A i \in DOMAIN warns' :
                       warns'[i] = kind \/ warns'[i] \in BeforeReconcileKinds
          /\ IF CreateCalls[1].res
             THEN /\ Len(DestroyCalls) = 1
                  /\ DestroyCalls[1].h = CreateCalls[1].h
                  /\ DestroyCalls[1].h # VK_NULL_HANDLE
             ELSE DestroyCalls = << >> ]_vars

\* A buffer created live under id 0 has been destroyed in its own record.
C2_Witness ==
    /\ AfterLine /\ AllocCreation(rec) /\ rec.id = 0 /\ rec.live
    /\ warns = <<"succeeded, originally failed">>
    /\ Len(calls) = 2 /\ calls[1].fn = "vmaCreateBuffer"
    /\ calls[2].fn = "vmaDestroyBuffer" /\ calls[2].h = calls[1].h
    /\ player.m_Allocations = << >>

\* C2 as the specification words it: exactly one warning is counted.
C2_Original ==
    [][ (StepLine /\ rec'.id = 0 /\ WellFormed(rec')
         /\ rec'.fn \in {"vmaCreateBuffer", "vmaCreateImage", "vmaAllocateMemory"}) =>
          /\ player'.m_Allocations = player.m_Allocations
          /\ Len(warns') = 1
          /\ Len(CreateCalls) = 1
          /\ IF CreateCalls[1].res
             THEN Len(DestroyCalls) = 1 /\ DestroyCalls[1].h = CreateCalls[1].h
             ELSE DestroyCalls = << >> ]_vars

(* C3: a second creation record of an id whose last creation has not been
   destroyed counts exactly one 'already exists' warning; the registry then
   holds exactly the entry of the second creation under that id, and the live
   object of the first creation is not destroyed by the second record. This
   holds of allocations and of pools. *)
C3_Duplicate ==
    [][ StepLine =>
          /\ (AllocCreation(rec') /\ rec'.id \in DOMAIN life.alloc
              /\ life.alloc[rec'.id] = "created") =>
                /\ CountOf(warns', "Allocation already exists") = 1
                /\ Len(CreateCalls) = 1
                /\ player'.m_Allocations[rec'.id].allocation = CreateCalls[1].h
                /\ player'.m_Allocations[rec'.id].allocationFlags = CreateCalls[1].flags
                /\ DOMAIN player'.m_Allocations = DOMAIN player.m_Allocations
                /\ DestroyCalls = << >>
          /\ (rec'.fn = "vmaCreatePool" /\ WellFormed(rec')
              /\ rec'.id \in DOMAIN life.pool /\ life.pool[rec'.id] = "created") =>
                /\ CountOf(warns', "Pool already exists") = 1
                /\ Len(CreateCalls) = 1
                /\ player'.m_Pools[rec'.id].pool = CreateCalls[1].h
                /\ DOMAIN player'.m_Pools = DOMAIN player.m_Pools
                /\ DestroyCalls = << >> ]_vars

\* Id 1 has been created live twice: the registry holds the second handle.
C3_Witness ==
    /\ AfterLine /\ nlines = 2 /\ AllocCreation(rec) /\ rec.id = 1
    /\ warns = <<"Allocation already exists">>
    /\ player.m_Allocations[1].allocation = 2
    /\ nextHandle = 2

\* The destroy path of a registered allocation: Player::Destroy picks it by kind.
DestroyPathOf(e) ==
    IF e.buffer # VK_NULL_HANDLE THEN "vmaDestroyBuffer"
    ELSE IF e.image # VK_NULL_HANDLE THEN "vmaDestroyImage" ELSE "vmaFreeMemory"

\* The step is the teardown of the player.
StepTeardown == pc = "playing" /\ pc' # "playing"

(* C6: at teardown every allocation entry left in the registry is passed to its
   destroy path exactly once and every pool left to destroy-pool exactly once,
   the allocations before the pools and both before the allocator is destroyed;
   both registries are empty afterwards. *)
C6_TeardownSweep ==
    [][ StepTeardown =>
          LET A == player.m_Allocations
              P == player.m_Pools
              n == Cardinality(DOMAIN A)
              m == Cardinality(DOMAIN P)
          IN  /\ Len(calls') = n + m + 1
              /\ \E order \in Perms(DOMAIN A) :
                    \A i \in 1..n : /\ calls'[i].fn = DestroyPathOf(A[order[i]])
                                    /\ calls'[i].h = A[order[i]].allocation
              /\ \E order \in Perms(DOMAIN P) :
                    \A i \in 1..m : /\ calls'[n + i].fn = "vmaDestroyPool"
                                    /\ calls'[n + i].h = P[order[i]].pool
              /\ calls'[n + m + 1].fn = "vmaDestroyAllocator"
              /\ player'.m_Allocations = << >>
              /\ player'.m_Pools = << >>
              /\ player'.m_Allocator = VK_NULL_HANDLE ]_vars

\* The player has been torn down with a buffer and a pool left.
C6_Witness ==
    /\ pc = "exit" /\ nlines = 2
    /\ Len(calls) = 3
    /\ calls[1].fn = "vmaDestroyBuffer" /\ calls[2].fn = "vmaDestroyPool"
    /\ calls[3].fn = "vmaDestroyAllocator"
    /\ player.m_Allocations = << >> /\ player.m_Pools = << >>

----------------------------------------------------------------------------
(* Handle lifecycle: creations, destroys and uses of one allocation id *)

MaxLinesLife == 3

RecordsLife ==
    {[Rec(fn, MinCount(fn), 1) EXCEPT !.live = l] :
        fn \in {"vmaCreateBuffer", "vmaCreateImage", "vmaAllocateMemory"},
        l \in BOOLEAN}
    \cup {Rec(fn, MinCount(fn), 1) : fn \in DestroyAllocationFns \cup UseAllocationFns}
    \cup {[Rec(fn, MinCount(fn), 1) EXCEPT !.frame = 1] :
        fn \in {"vmaMapMemory", "vmaDestroyBuffer"}}

InitLife == InitWith({FileOk}, {VERBOSITY_DEFAULT}, BOOLEAN, {1})

NextLife ==
    \/ OpenFile
    \/ BeginIteration
    \/ \E r \in RecordsLife : ExecuteLine(r, MaxLinesLife)
    \/ EndIteration

SpecLife == InitLife /\ [][NextLife]_vars

\* A well-formed record that maps, unmaps, flushes, invalidates, touches, queries,
\* sets the user data of, or destroys the allocation it names.
RefersToAllocation(r) ==
    WellFormed(r) /\ r.fn \in UseAllocationFns \cup DestroyAllocationFns

\* The allocation id of the record of the step was created and then destroyed.
AfterDestroy ==
    /\ RefersToAllocation(rec')
    /\ rec'.id \in DOMAIN life.alloc
    /\ life.alloc[rec'.id] = "destroyed"

(* C4: once an id has been created and destroyed it is absent from the registry,
   whether its entry was live or null; every later record that refers to it
   counts exactly one 'not found' warning (none when it is a set-user-data
   record and user data is disabled), never 'allocation is null', and calls the
   allocator for nothing but the frame index of its header. *)
C4_Lifecycle ==
    [][ StepLine =>
          /\ \A X \in DOMAIN life'.alloc :
                life'.alloc[X] = "destroyed" => X \notin DOMAIN player'.m_Allocations
          /\ AfterDestroy =>
                /\ CountOf(warns', "Allocation not found") =
                      IF rec'.fn = "vmaSetAllocationUserData" /\ ~g_UserDataEnabled
                      THEN 0 ELSE 1
                /\ CountOf(warns', "allocation is null") = 0
                /\ \A i \in DOMAIN calls' : calls'[i].fn = "vmaSetCurrentFrameIndex" ]_vars

\* Id 1 was created, destroyed and then mapped: the map is reported not found.
C4_Witness ==
    /\ AfterLine /\ nlines = 3 /\ rec.fn = "vmaMapMemory" /\ rec.id = 1
    /\ 1 \in DOMAIN life.alloc /\ life.alloc[1] = "destroyed"
    /\ warns = <<"Allocation not found">>
    /\ calls = << >>
    /\ player.m_Allocations = << >>

\* C4 as the specification words it: always 'not found', and no allocator call.
C4_Original ==
    [][ StepLine =>
          /\ \A X \in DOMAIN life'.alloc :
                life'.alloc[X] = "destroyed" => X \notin DOMAIN player'.m_Allocations
          /\ AfterDestroy =>
                /\ CountOf(warns', "Allocation not found") = 1
                /\ CountOf(warns', "allocation is null") = 0
                /\ calls' = << >> ]_vars

----------------------------------------------------------------------------
(* Null entries, with user data enabled *)

InitNull == InitWith({FileOk}, {VERBOSITY_DEFAULT}, {TRUE}, {1})

SpecNull == InitNull /\ [][NextLife]_vars

(* C7: when the registry holds a null entry under the id of a record that maps,
   unmaps, flushes, invalidates, touches, queries, sets the user data of, or
   destroys it, the record counts an 'allocation is null' warning, no 'not
   found' warning, and calls no allocator entry point with the null handle. *)
C7_NullEntry ==
    [][ (/\ StepLine
         /\ RefersToAllocation(rec')
         /\ rec'.id \in DOMAIN player.m_Allocations
         /\ player.m_Allocations[rec'.id].allocation = VK_NULL_HANDLE) =>
          /\ CountOf(warns', "allocation is null") = 1
          /\ CountOf(warns', "Allocation not found") = 0
          /\ \A i \in DOMAIN calls' :
                calls'[i].fn # "vmaSetCurrentFrameIndex" =>
                    calls'[i].h # VK_NULL_HANDLE ]_vars

----------------------------------------------------------------------------
(* Records with too few columns *)

MaxLinesArity == 2

RecordsArity ==
    UNION {{Rec(fn, c, 1) : c \in {FIRST_PARAM_INDEX, MinCount(fn) - 1, MinCount(fn)}} :
              fn \in VMA_FUNCTION_NAMES \cup {"vmaCreateAllocator"}}
    \cup {[Rec(fn, MinCount(fn) - 1, 1) EXCEPT !.frame = 1] :
        fn \in {"vmaCreateBuffer", "vmaCreatePool", "vmaMapMemory",
                "vmaSetAllocationUserData"}}

InitArity == InitWith({FileOk}, {VERBOSITY_DEFAULT}, BOOLEAN, {1})

NextArity ==
    \/ OpenFile
    \/ BeginIteration
    \/ \E r \in RecordsArity : ExecuteLine(r, MaxLinesArity)
    \/ EndIteration

SpecArity == InitArity /\ [][NextArity]_vars

\* The record of the step names a counted function and has too few columns for it.
TooFewParameters ==
    /\ rec'.fn \in VMA_FUNCTION_NAMES
    /\ rec'.count >= FIRST_PARAM_INDEX
    /\ rec'.count < MinCount(rec'.fn)

(* C5: a record that names a counted function with fewer columns than the
   function requires calls the allocator for nothing but the frame index of
   its header, leaves both registries unchanged, counts exactly one 'incorrect
   number of function parameters' warning (none when it is a set-user-data
   record and user data is disabled), and raises the call counter of its
   function, and of no other, by one. *)
C5_Arity ==
    [][ (StepLine /\ TooFewParameters) =>
          /\ \A i \in DOMAIN calls' : calls'[i].fn = "vmaSetCurrentFrameIndex"
          /\ player'.m_Allocations = player.m_Allocations
          /\ player'.m_Pools = player.m_Pools
          /\ CountOf(warns', "Incorrect number of function parameters") =
                IF rec'.fn = "vmaSetAllocationUserData" /\ ~g_UserDataEnabled
                THEN 0 ELSE 1
          /\ Len(warns') <= 1
          /\ \A f \in VMA_FUNCTION_NAMES :
                player'.m_Stats.m_FunctionCallCount[f] =
                    player.m_Stats.m_FunctionCallCount[f]
                    + (IF f = rec'.fn THEN 1 ELSE 0) ]_vars

\* A buffer is registered and a create-buffer record one column short follows.
C5_Witness ==
    /\ AfterLine /\ nlines = 2 /\ rec.fn = "vmaCreateBuffer" /\ rec.count = 14
    /\ warns = <<"Incorrect number of function parameters">>
    /\ calls = << >>
    /\ DOMAIN player.m_Allocations = {1}
    /\ player.m_Stats.m_FunctionCallCount["vmaCreateBuffer"] = 2

\* C5 as the specification words it: no entry point at all, always one warning.
C5_Original ==
    [][ (StepLine /\ TooFewParameters) =>
          /\ calls' = << >>
          /\ player'.m_Allocations = player.m_Allocations
          /\ player'.m_Pools = player.m_Pools
          /\ CountOf(warns', "Incorrect number of function parameters") = 1
          /\ player'.m_Stats.m_FunctionCallCount[rec'.fn] =
                player.m_Stats.m_FunctionCallCount[rec'.fn] + 1 ]_vars

----------------------------------------------------------------------------
(* Loading: header, file version, initialisation, iterations *)

MaxVersionHigh == 1
MaxVersionLow == 3
MaxIterations == 2
MaxLinesLoad == 1

\* The 32-bit values a number of line 2 is drawn from.
VersionWords == [hi : 0..MaxVersionHigh, lo : 0..MaxVersionLow]

FilesLoad ==
    {[state |-> "ok", line1 |-> l, versionOk |-> v, major |-> ma, minor |-> mi] :
        l \in BOOLEAN, v \in BOOLEAN, ma \in VersionWords, mi \in VersionWords}
    \cup {[FileOk EXCEPT !.state = "unreadable"]}

RecordsLoad == {Rec("vmaCreateBuffer", 15, 1), Rec("vmaDestroyBuffer", 5, 1)}

InitLoad == InitWith(FilesLoad, {VERBOSITY_DEFAULT}, {TRUE}, 1..MaxIterations)

NextLoad ==
    \/ OpenFile
    \/ BeginIteration
    \/ \E r \in RecordsLoad : ExecuteLine(r, MaxLinesLoad)
    \/ EndIteration

SpecLoad == InitLoad /\ [][NextLoad]_vars

\* Line 2 holds major = 1 and minor = 0, 1 or 2.
SupportedVersion ==
    file.major = U32Of(1) /\ file.minor \in {U32Of(0), U32Of(1), U32Of(2)}

(* C8: of a file whose first line is the header and whose second line is two
   unsigned 32-bit numbers, every iteration ends with the format error, and no
   record is played, when major # 1 or minor > 2; and no iteration ends with
   the format error when major = 1 and minor is 0, 1 or 2. *)
C8_VersionGate ==
    (file.state = "ok" /\ file.line1 /\ file.versionOk) =>
        /\ pc = "playing" => SupportedVersion
        /\ \A i \in DOMAIN iterResults :
              iterResults[i] = RESULT_ERROR_FORMAT <=> ~SupportedVersion

(* C9: when an iteration has ended with a fatal condition (a bad header, an
   unsupported version, a failed initialisation of the allocator), the process
   exits with a nonzero status, whatever the iteration count. *)
C9_FatalExit ==
    (pc = "exit" /\ \E i \in DOMAIN iterResults :
                        iterResults[i] \in {RESULT_ERROR_FORMAT, RESULT_ERROR_VULKAN})
        => exitStatus # 0

----------------------------------------------------------------------------
(* The warning cap *)

MaxLinesCap == 23

\* Records that count three warnings, one warning and no warning.
RecordsCap ==
    { [Rec("vmaNoSuchFunction", 4, 0) EXCEPT !.thread = BAD, !.frame = BAD],
      Rec("vmaMapMemory", 3, 0),
      Rec("vmaMapMemory", 5, 0) }

InitCap ==
    InitWith({FileOk}, {VERBOSITY_MINIMUM, VERBOSITY_DEFAULT, VERBOSITY_MAXIMUM},
             {TRUE}, {1})

NextCap ==
    \/ OpenFile
    \/ BeginIteration
    \/ \E r \in RecordsCap : ExecuteLine(r, MaxLinesCap)
    \/ EndIteration

SpecCap == InitCap /\ [][NextCap]_vars

\* The player of the last iteration has been destroyed.
TornDown == pc \in {"start", "exit"} /\ iterResults # << >>
            /\ iterResults[Len(iterResults)] = 0

MinOf(a, b) == IF a < b THEN a ELSE b

(* C10: with W warnings counted and the cap C = MAX_WARNINGS_TO_SHOW, below
   maximum verbosity exactly the first min(W, C) warnings are shown, and the
   number W - C is reported at teardown, and only there, when W > C; at maximum
   verbosity all W warnings are shown and no number is reported. *)
C10_WarningCap ==
    LET W == player.m_WarningCount
        C == MAX_WARNINGS_TO_SHOW
    IN  /\ shown = IF g_Verbosity < VERBOSITY_MAXIMUM THEN 1..MinOf(W, C) ELSE 1..W
        /\ suppressedReport =
              IF TornDown /\ g_Verbosity < VERBOSITY_MAXIMUM /\ W > C
              THEN W - C ELSE -1

\* Torn down at default verbosity after 66 warnings: 64 shown, 2 reported.
C10_Witness ==
    /\ TornDown /\ g_Verbosity = VERBOSITY_DEFAULT
    /\ player.m_WarningCount = MAX_WARNINGS_TO_SHOW + 2
    /\ shown = 1..MAX_WARNINGS_TO_SHOW
    /\ suppressedReport = 2

----------------------------------------------------------------------------
(* The header of a record: thread id, time, frame index, function name *)

MaxLinesHeader == 3
MaxFrame == 2

RecordsHeader ==
    {[Rec(fn, MinCount(fn), 1) EXCEPT !.thread = th, !.frame = f] :
        fn \in {"vmaNoSuchFunction", "vmaCreateBuffer"},
        th \in {BAD, 1}, f \in {BAD} \cup 0..MaxFrame}
    \cup {[Rec("vmaCreateBuffer", 3, 1) EXCEPT !.thread = 2, !.frame = f] : f \in {0, 1}}

InitHeader == InitWith({FileOk}, {VERBOSITY_DEFAULT}, {TRUE}, {1})

NextHeader ==
    \/ OpenFile
    \/ BeginIteration
    \/ \E r \in RecordsHeader : ExecuteLine(r, MaxLinesHeader)
    \/ EndIteration

SpecHeader == InitHeader /\ [][NextHeader]_vars

\* The calls of vmaSetCurrentFrameIndex among the calls of the step.
FrameCalls == CallsTo(calls', {"vmaSetCurrentFrameIndex"})
\* The other calls of the step.
OperationCalls ==
    SelectSeq(calls', LAMBDA c : c.fn # "vmaSetCurrentFrameIndex")

(* C11: the current frame index is 0 when a run starts playing; a record with
   at least 4 columns causes a call of vmaSetCurrentFrameIndex, exactly one and
   with the record's frame index, if and only if its frame index parses and
   differs from the current frame index; the current frame index is then the
   record's, and an unparsable frame index leaves it unchanged. *)
C11_FrameNotification ==
    [][ /\ (pc = "start" /\ pc' = "playing") => player'.m_VmaFrameIndex = 0
        /\ (StepLine /\ rec'.count >= FIRST_PARAM_INDEX) =>
              IF rec'.frame # BAD /\ rec'.frame # player.m_VmaFrameIndex
              THEN /\ Len(FrameCalls) = 1
                   /\ calls'[1].fn = "vmaSetCurrentFrameIndex"
                   /\ calls'[1].h = rec'.frame
                   /\ player'.m_VmaFrameIndex = rec'.frame
              ELSE /\ FrameCalls = << >>
                   /\ player'.m_VmaFrameIndex = player.m_VmaFrameIndex ]_vars

\* The third record has no frame index while the current frame index is 2:
\* no notification, the current frame index is still 2.
C11_Witness ==
    /\ AfterLine /\ nlines = 3 /\ rec.frame = BAD
    /\ player.m_VmaFrameIndex = 2
    /\ CallsTo(calls, {"vmaSetCurrentFrameIndex"}) = << >>
    /\ CountOf(warns, "Incorrect frame index") = 1

\* The function names Player::ExecuteLine compares the fourth column with.
KnownFunctions == VMA_FUNCTION_NAMES \cup {"vmaCreateAllocator", "vmaDestroyAllocator"}

\* The record of the step has a header and names no function the player knows.
UnknownFunction == rec'.count >= FIRST_PARAM_INDEX /\ rec'.fn \notin KnownFunctions

\* m_Threads after the header of the record of the step.
ThreadsAfterHeader ==
    IF rec'.thread = BAD THEN player.m_Threads
    ELSE MapPut(player.m_Threads, rec'.thread,
                [callCount |-> IF rec'.thread \in DOMAIN player.m_Threads
                               THEN player.m_Threads[rec'.thread].callCount + 1
                               ELSE 1])

(* C12: a record with at least 4 columns whose function name is not known
   counts exactly one 'unknown function' warning, next to the warnings about
   its header, and nothing of it is executed: no entry point but the frame
   index of its header is called, and the registries and the statistics are
   unchanged.  Its header is processed as that of any record: the call counter
   of its thread is raised by one and its time is kept. *)
C12_UnknownFunction ==
    [][ (StepLine /\ UnknownFunction) =>
          /\ CountOf(warns', "Unknown function") = 1
          /\ \A i \in DOMAIN warns' :
                warns'[i] \in {"Unknown function", "Incorrect thread ID",
                               "Incorrect frame index"}
          /\ OperationCalls = << >>
          /\ player'.m_Allocations = player.m_Allocations
          /\ player'.m_Pools = player.m_Pools
          /\ player'.m_Stats = player.m_Stats
          /\ player'.m_Threads = ThreadsAfterHeader
          /\ player'.m_LastLineTimeStr = rec'.time ]_vars

\* After a buffer was created by thread 1 in frame 0, a record of an unknown
\* function of thread 1 in frame 1: one warning, the frame notified, two calls
\* counted for the thread.
C12_Witness ==
    /\ AfterLine /\ nlines = 2 /\ rec.fn = "vmaNoSuchFunction"
    /\ rec.thread = 1 /\ rec.frame = 1
    /\ warns = <<"Unknown function">>
    /\ Len(calls) = 1 /\ calls[1].fn = "vmaSetCurrentFrameIndex"
    /\ player.m_Threads[1].callCount = 2
    /\ DOMAIN player.m_Allocations = {1}

\* C12 as the specification words it: one warning and no effect at all.
C12_Original ==
    [][ (StepLine /\ UnknownFunction) =>
          /\ Len(warns') = 1
          /\ calls' = << >>
          /\ player'.m_Allocations = player.m_Allocations
          /\ player'.m_Pools = player.m_Pools
          /\ player'.m_Stats = player.m_Stats
          /\ player'.m_Threads = player.m_Threads
          /\ player'.m_VmaFrameIndex = player.m_VmaFrameIndex ]_vars

----------------------------------------------------------------------------
(* Records whose parameters do not convert *)

MaxLinesDecode == 2

RecordsDecode ==
    {[Rec(fn, MinCount(fn), 1) EXCEPT !.dec = FALSE] : fn \in VMA_FUNCTION_NAMES}
    \cup {[Rec("vmaCreateBuffer", 15, 1) EXCEPT !.dec = FALSE, !.frame = 1]}
    \cup {Rec("vmaCreateBuffer", 15, 1), Rec("vmaCreatePool", 11, 1)}

InitDecode == InitWith({FileOk}, {VERBOSITY_DEFAULT}, BOOLEAN, {1})

NextDecode ==
    \/ OpenFile
    \/ BeginIteration
    \/ \E r \in RecordsDecode : ExecuteLine(r, MaxLinesDecode)
    \/ EndIteration

SpecDecode == InitDecode /\ [][NextDecode]_vars

\* The record has the number of columns its function takes.
ArityOk(r) ==
    IF r.fn \in UnboundFns THEN r.count >= MinCount(r.fn) ELSE r.count = MinCount(r.fn)

\* The record of the step is one of a counted function, with the right number
\* of columns, one of which does not convert.
UndecodableParameter ==
    rec'.fn \in VMA_FUNCTION_NAMES /\ ArityOk(rec') /\ ~rec'.dec

(* C13: a record of a counted function with the right number of columns, one
   of whose fixed parameters does not convert, counts exactly one 'invalid
   parameters' warning (none when it is a set-user-data record and user data is
   disabled), calls no entry point but the frame index of its header, leaves
   both registries unchanged and raises none of the creation counts of the
   statistics (pools, buffers, images, allocations). *)
C13_InvalidParameters ==
    [][ (StepLine /\ UndecodableParameter) =>
          /\ CountOf(warns', "Invalid parameters") =
                IF rec'.fn = "vmaSetAllocationUserData" /\ ~g_UserDataEnabled
                THEN 0 ELSE 1
          /\ OperationCalls = << >>
          /\ player'.m_Allocations = player.m_Allocations
          /\ player'.m_Pools = player.m_Pools
          /\ [player'.m_Stats EXCEPT !.m_FunctionCallCount =
                                        player.m_Stats.m_FunctionCallCount]
                = player.m_Stats ]_vars

\* A pool is registered and a create-pool record that does not convert follows.
C13_Witness ==
    /\ AfterLine /\ nlines = 2 /\ rec.fn = "vmaCreatePool" /\ ~rec.dec
    /\ warns = <<"Invalid parameters">>
    /\ calls = << >>
    /\ DOMAIN player.m_Pools = {1}
    /\ player.m_Stats.m_PoolCreationCount = 1
    /\ player.m_Stats.m_FunctionCallCount["vmaCreatePool"] = 2

\* C13 as the specification words it: one warning for every function.
C13_Original ==
    [][ (StepLine /\ UndecodableParameter) =>
          /\ CountOf(warns', "Invalid parameters") = 1
          /\ OperationCalls = << >>
          /\ player'.m_Allocations = player.m_Allocations
          /\ player'.m_Pools = player.m_Pools
          /\ [player'.m_Stats EXCEPT !.m_FunctionCallCount =
                                        player.m_Stats.m_FunctionCallCount]
                = player.m_Stats ]_vars

----------------------------------------------------------------------------
(* Records that refer to an allocation the registry does not hold *)

\* The record of the step refers to a nonzero allocation id that is not in the
\* registry.
UnresolvedAllocation ==
    /\ RefersToAllocation(rec')
    /\ rec'.id # 0
    /\ rec'.id \notin DOMAIN player.m_Allocations

(* C14: a map, unmap, flush, invalidate, touch, get-info, set-user-data or
   destroy record whose nonzero allocation id is not in the registry counts
   exactly one 'not found' warning (none when it is a set-user-data record and
   user data is disabled), calls no entry point but the frame index of its
   header, leaves the registry unchanged, and the player goes on to the next
   record. *)
C14_AllocationNotFound ==
    [][ (StepLine /\ UnresolvedAllocation) =>
          /\ CountOf(warns', "Allocation not found") =
                IF rec'.fn = "vmaSetAllocationUserData" /\ ~g_UserDataEnabled
                THEN 0 ELSE 1
          /\ Len(warns') = CountOf(warns', "Allocation not found")
          /\ OperationCalls = << >>
          /\ player'.m_Allocations = player.m_Allocations
          /\ player'.m_Pools = player.m_Pools
          /\ pc' = "playing" ]_vars

\* A destroy-image record names an id no record created, after another record
\* was played.
C14_Witness ==
    /\ AfterLine /\ nlines = 2
    /\ rec.fn = "vmaDestroyImage" /\ rec.id = 1
    /\ 1 \notin DOMAIN life.alloc
    /\ warns = <<"Allocation not found">>
    /\ calls = << >>
    /\ player.m_Allocations = << >>

\* C14 as the specification words it: one warning for every such record.
C14_Original ==
    [][ (StepLine /\ UnresolvedAllocation) =>
          /\ CountOf(warns', "Allocation not found") = 1
          /\ OperationCalls = << >>
          /\ player'.m_Allocations = player.m_Allocations
          /\ pc' = "playing" ]_vars

----------------------------------------------------------------------------
(* Creation records that name a pool *)

MaxLinesPool == 2
MaxPoolRef == 2

PoolCreationFns ==
    { "vmaCreateBuffer", "vmaCreateImage", "vmaAllocateMemory",
      "vmaAllocateMemoryForBuffer", "vmaAllocateMemoryForImage" }

RecordsPool ==
    {[Rec("vmaCreatePool", MinCount("vmaCreatePool"), 1) EXCEPT !.live = l] : l \in BOOLEAN}
    \cup {[Rec("vmaCreateBuffer", MinCount("vmaCreateBuffer"), id)
              EXCEPT !.pool = p, !.live = l] :
            id \in ZeroAndOne, p \in 0..MaxPoolRef, l \in BOOLEAN}
    \cup {[Rec(fn, MinCount(fn), 1) EXCEPT !.pool = p] :
            fn \in PoolCreationFns \ {"vmaCreateBuffer"}, p \in 0..MaxPoolRef}

InitPool == InitWith({FileOk}, {VERBOSITY_DEFAULT}, {TRUE}, {1})

NextPool ==
    \/ OpenFile
    \/ BeginIteration
    \/ \E r \in RecordsPool : ExecuteLine(r, MaxLinesPool)
    \/ EndIteration

SpecPool == InitPool /\ [][NextPool]_vars

\* The record of the step is a well-formed creation record of a kind that
\* names a pool.
PoolCreation == rec'.fn \in PoolCreationFns /\ WellFormed(rec')

\* The creation call of the step was reconciled with the original outcome.
Reconciled ==
    LET c == CreateCalls[1] IN
    IF rec'.id # 0
    THEN /\ rec'.id \in DOMAIN player'.m_Allocations
         /\ player'.m_Allocations[rec'.id].allocation =
               IF c.res THEN c.h ELSE VK_NULL_HANDLE
         /\ CountOf(warns', "failed, while originally succeeded") = IF c.res THEN 0 ELSE 1
         /\ CountOf(warns', "succeeded, originally failed") = 0
         /\ CountOf(warns', "failed, originally also failed") = 0
         /\ DestroyCalls = << >>
    ELSE /\ player'.m_Allocations = player.m_Allocations
         /\ CountOf(warns', "succeeded, originally failed") = IF c.res THEN 1 ELSE 0
         /\ CountOf(warns', "failed, originally also failed") = IF c.res THEN 0 ELSE 1
         /\ CountOf(warns', "failed, while originally succeeded") = 0
         /\ Len(DestroyCalls) = IF c.res THEN 1 ELSE 0

(* C15: a well-formed buffer, image, allocate-memory or
   allocate-memory-for-buffer/image record makes exactly one creation call.
   When its pool id is nonzero and absent from the pool registry, exactly one
   'pool not found' warning is counted and the call is made with no pool;
   otherwise no such warning is counted and the call is made with the
   registered handle of the pool, or with no pool when the id is 0.  Either
   way the outcome is reconciled as for any creation. *)
C15_PoolNotFound ==
    [][ (StepLine /\ PoolCreation) =>
          /\ Len(CreateCalls) = 1
          /\ IF rec'.pool # 0 /\ rec'.pool \notin DOMAIN player.m_Pools
             THEN /\ CountOf(warns', "Pool not found") = 1
                  /\ CreateCalls[1].pool = VK_NULL_HANDLE
             ELSE /\ CountOf(warns', "Pool not found") = 0
                  /\ CreateCalls[1].pool =
                        IF rec'.pool = 0 THEN VK_NULL_HANDLE
                        ELSE player.m_Pools[rec'.pool].pool
          /\ player'.m_Pools = player.m_Pools
          /\ Reconciled ]_vars

\* Pool 1 is registered with a live handle, and a buffer record that names
\* pool 2 was created in no pool and registered.
C15_Witness ==
    /\ AfterLine /\ nlines = 2
    /\ rec.fn = "vmaCreateBuffer" /\ rec.pool = 2 /\ rec.id = 1
    /\ DOMAIN player.m_Pools = {1}
    /\ player.m_Pools[1].pool # VK_NULL_HANDLE
    /\ warns = <<"Pool not found">>
    /\ Len(calls) = 1
    /\ calls[1].fn = "vmaCreateBuffer" /\ calls[1].pool = VK_NULL_HANDLE /\ calls[1].res
    /\ player.m_Allocations[1].allocation = calls[1].h

----------------------------------------------------------------------------
(* The entry points a record calls *)

MaxLinesInvoke == 2

PoolFns == { "vmaDestroyPool", "vmaMakePoolAllocationsLost" }

RecordsInvoke ==
    {[Rec(fn, MinCount(fn), id) EXCEPT !.live = l] :
        fn \in CreateAllocationFns \cup {"vmaCreatePool"}, id \in ZeroAndOne,
        l \in BOOLEAN}
    \cup {Rec(fn, MinCount(fn), id) :
        fn \in UseAllocationFns \cup DestroyAllocationFns \cup PoolFns,
        id \in ZeroAndOne}
    \cup {Rec(fn, MinCount(fn), 0) : fn \in {"vmaCreateAllocator", "vmaDestroyAllocator"}}
    \cup {[Rec("vmaCreateBuffer", 15, 0) EXCEPT !.frame = 1],
          [Rec("vmaMapMemory", 5, 1) EXCEPT !.frame = 1]}

InitInvoke == InitWith({FileOk}, {VERBOSITY_DEFAULT}, BOOLEAN, {1})

NextInvoke ==
    \/ OpenFile
    \/ BeginIteration
    \/ \E r \in RecordsInvoke : ExecuteLine(r, MaxLinesInvoke)
    \/ EndIteration

SpecInvoke == InitInvoke /\ [][NextInvoke]_vars

\* The registry holds a live handle under the id.
LiveAllocation(id) ==
    id \in DOMAIN player.m_Allocations
    /\ player.m_Allocations[id].allocation # VK_NULL_HANDLE
LivePool(id) ==
    id \in DOMAIN player.m_Pools /\ player.m_Pools[id].pool # VK_NULL_HANDLE

\* The record of the step has a header that parses and the columns its function
\* takes, all of which convert, and the id it refers to is registered with a
\* live handle.
PassesResolution ==
    /\ WellFormed(rec') /\ rec'.thread # BAD /\ rec'.frame # BAD
    /\ rec'.fn \in UseAllocationFns \cup DestroyAllocationFns => LiveAllocation(rec'.id)
    /\ rec'.fn \in PoolFns => LivePool(rec'.id)

\* The calls of the step other than the frame index, one by one.
OperationCallIs(i, fn, h) ==
    OperationCalls[i].fn = fn /\ OperationCalls[i].h = h

(* C16: a record that passes header parsing, arity validation and parameter
   decoding, and whose id (when it refers to one) is registered with a live
   handle, calls exactly one entry point for its operation: the creation call
   of a creation record, the destroy path of the entry for a destroy record,
   the operation itself on the registered handle otherwise.  Besides it, a
   record whose frame index differs from the current one first sets the frame
   index, and a creation that succeeds under original id 0 destroys what it
   created.  A set-user-data record calls nothing while user data is disabled,
   and neither does a create-allocator or destroy-allocator record. *)
C16_OneEntryPoint ==
    [][ /\ (StepLine /\ PassesResolution) =>
             /\ Len(calls') - Len(OperationCalls) =
                   IF rec'.frame # player.m_VmaFrameIndex THEN 1 ELSE 0
             /\ CASE rec'.fn \in CreateAllocationFns \cup {"vmaCreatePool"} ->
                       /\ Len(CreateCalls) = 1
                       /\ OperationCalls[1] = CreateCalls[1]
                       /\ IF rec'.id = 0 /\ CreateCalls[1].res
                          THEN /\ Len(OperationCalls) = 2
                               /\ OperationCalls[2].fn \in DestroyEntryPoints
                               /\ OperationCalls[2].h = CreateCalls[1].h
                          ELSE Len(OperationCalls) = 1
                  [] rec'.fn = "vmaSetAllocationUserData" /\ ~g_UserDataEnabled ->
                       OperationCalls = << >>
                  [] rec'.fn \in DestroyAllocationFns ->
                       /\ Len(OperationCalls) = 1
                       /\ OperationCallIs(1, DestroyPathOf(player.m_Allocations[rec'.id]),
                                          player.m_Allocations[rec'.id].allocation)
                  [] rec'.fn \in PoolFns ->
                       /\ Len(OperationCalls) = 1
                       /\ OperationCallIs(1, rec'.fn, player.m_Pools[rec'.id].pool)
                  [] OTHER ->
                       /\ Len(OperationCalls) = 1
                       /\ OperationCallIs(1, rec'.fn,
                                          player.m_Allocations[rec'.id].allocation)
        /\ (StepLine /\ rec'.fn \in {"vmaCreateAllocator", "vmaDestroyAllocator"}
                     /\ rec'.count = FIRST_PARAM_INDEX) =>
             OperationCalls = << >> ]_vars

\* A pool registered with a live handle was destroyed by a destroy-pool record:
\* one call, of vmaDestroyPool.
C16_Witness ==
    /\ AfterLine /\ nlines = 2
    /\ rec.fn = "vmaDestroyPool" /\ rec.id = 1
    /\ Len(calls) = 1
    /\ calls[1].fn = "vmaDestroyPool" /\ calls[1].h # VK_NULL_HANDLE
    /\ warns = << >>
    /\ player.m_Pools = << >>
    /\ player.m_Stats.m_PoolCreationCount = 1

\* C16 as the specification words it: exactly one entry point for every such
\* record, the frame index of the header not counted.
C16_Original ==
    [][ (StepLine /\ PassesResolution) => Len(OperationCalls) = 1 ]_vars

----------------------------------------------------------------------------
(* The outcome of a creation, for every kind of object *)

\* The registry the objects of function fn are kept in, the live handle of one
\* of its entries, and the entry point that destroys such an object.
RegistryOf(p, fn) == IF fn = "vmaCreatePool" THEN p.m_Pools ELSE p.m_Allocations
OtherRegistryOf(p, fn) == IF fn = "vmaCreatePool" THEN p.m_Allocations ELSE p.m_Pools
HandleOf(e, fn) == IF fn = "vmaCreatePool" THEN e.pool ELSE e.allocation
DestroyOf(fn) ==
    CASE fn = "vmaCreatePool" -> "vmaDestroyPool"
      [] fn = "vmaCreateBuffer" -> "vmaDestroyBuffer"
      [] fn = "vmaCreateImage" -> "vmaDestroyImage"
      [] OTHER -> "vmaFreeMemory"

\* The step plays a well-formed creation record, of a pool or of an allocation.
Creation == StepLine /\ WellFormed(rec') /\ rec'.fn \in CreateAllocationFns \cup {"vmaCreatePool"}

\* The reconciliation warning of the step is kind, counted once, or there is
\* none when kind is "".
ReconcileWarningIs(kind) ==
    \A k \in DivergenceKinds : CountOf(warns', k) = IF k = kind THEN 1 ELSE 0

(* C17: for a well-formed creation record of a pool, buffer, image, raw
   allocation or lost allocation, the pair (original id nonzero, live call
   succeeded) decides the outcome in the same way: nonzero and succeeded, the
   live handle is registered under the id and no reconciliation warning is
   counted; nonzero and failed, a null entry is registered and one 'failed,
   while originally succeeded' is counted; zero and succeeded, one 'succeeded,
   originally failed' is counted and the object is destroyed; zero and failed,
   one 'failed, originally also failed' is counted.  Nothing is registered
   under id zero and nothing is destroyed in the other three rows.  Pools go to
   the pool registry and are destroyed by vmaDestroyPool; the other kinds go to
   the allocation registry; the registry of the other kind never changes. *)
C17_UniformMatrix ==
    [][ Creation =>
          LET fn == rec'.fn
              id == rec'.id
              old == RegistryOf(player, fn)
              new == RegistryOf(player', fn)
              c == CreateCalls[1]
          IN  /\ Len(CreateCalls) = 1
              /\ OtherRegistryOf(player', fn) = OtherRegistryOf(player, fn)
              /\ IF id # 0
                 THEN /\ DOMAIN new = DOMAIN old \cup {id}
                      /\ \A X \in DOMAIN old \ {id} : new[X] = old[X]
                      /\ HandleOf(new[id], fn) = IF c.res THEN c.h ELSE VK_NULL_HANDLE
                      /\ c.res => c.h # VK_NULL_HANDLE
                      /\ ReconcileWarningIs(IF c.res THEN ""
                                            ELSE "failed, while originally succeeded")
                      /\ DestroyCalls = << >>
                 ELSE /\ new = old
                      /\ ReconcileWarningIs(IF c.res THEN "succeeded, originally failed"
                                            ELSE "failed, originally also failed")
                      /\ IF c.res
                         THEN /\ Len(DestroyCalls) = 1
                              /\ DestroyCalls[1].fn = DestroyOf(fn)
                              /\ DestroyCalls[1].h = c.h
                         ELSE DestroyCalls = << >> ]_vars

\* A pool whose creation failed is registered with no handle, and a lost
\* allocation created under id 0 was freed in its own record.
C17_Witness ==
    /\ AfterLine /\ nlines = 2
    /\ rec.fn = "vmaCreateLostAllocation" /\ rec.id = 0
    /\ DOMAIN player.m_Pools = {1}
    /\ player.m_Pools[1].pool = VK_NULL_HANDLE
    /\ player.m_Allocations = << >>
    /\ warns = <<"succeeded, originally failed">>
    /\ Len(calls) = 2
    /\ calls[1].fn = "vmaCreateLostAllocation" /\ calls[1].res
    /\ calls[2].fn = "vmaFreeMemory" /\ calls[2].h = calls[1].h

----------------------------------------------------------------------------
(* The destroy path of a registered allocation *)

\* The step plays a well-formed destroy-buffer, destroy-image or free-memory
\* record whose id is in the registry.
DestroyFound ==
    /\ StepLine /\ WellFormed(rec') /\ rec'.fn \in DestroyAllocationFns
    /\ rec'.id \in DOMAIN player.m_Allocations

(* C18: a well-formed destroy-buffer, destroy-image or free-memory record whose
   id is in the registry makes one destroy call, on the handle of the entry:
   vmaDestroyBuffer when the entry holds a buffer, vmaDestroyImage when it
   holds an image, vmaFreeMemory when it holds neither, whichever of the three
   names the record carries.  The entry is erased and the others are kept, and
   the call counter that goes up by one is that of the record's own name, and
   no other. *)
C18_SharedDestroy ==
    [][ DestroyFound =>
          LET e == player.m_Allocations[rec'.id]
              old == player.m_Stats.m_FunctionCallCount
              new == player'.m_Stats.m_FunctionCallCount
          IN  /\ Len(OperationCalls) = 1
              /\ OperationCalls[1].fn =
                    IF e.buffer # VK_NULL_HANDLE THEN "vmaDestroyBuffer"
                    ELSE IF e.image # VK_NULL_HANDLE THEN "vmaDestroyImage"
                    ELSE "vmaFreeMemory"
              /\ OperationCalls[1].h = e.allocation
              /\ DOMAIN player'.m_Allocations = DOMAIN player.m_Allocations \ {rec'.id}
              /\ \A X \in DOMAIN player'.m_Allocations :
                    player'.m_Allocations[X] = player.m_Allocations[X]
              /\ \A f \in DOMAIN old :
                    new[f] = IF f = rec'.fn THEN old[f] + 1 ELSE old[f] ]_vars

\* A buffer was created and a free-memory record destroyed it as a buffer; the
\* call counted is vmaFreeMemory.
C18_Witness ==
    /\ AfterLine /\ nlines = 2
    /\ rec.fn = "vmaFreeMemory" /\ rec.id = 1
    /\ Len(calls) = 1
    /\ calls[1].fn = "vmaDestroyBuffer" /\ calls[1].h # VK_NULL_HANDLE
    /\ player.m_Allocations = << >>
    /\ player.m_Stats.m_FunctionCallCount["vmaFreeMemory"] = 1
    /\ player.m_Stats.m_FunctionCallCount["vmaDestroyBuffer"] = 0
    /\ player.m_Stats.m_FunctionCallCount["vmaCreateBuffer"] = 1

----------------------------------------------------------------------------
(* Records whose header does not parse, and records without a header *)

\* The step plays a record with a header whose thread id or frame index does
\* not parse.
MalformedHeader ==
    /\ StepLine /\ rec'.count >= FIRST_PARAM_INDEX
    /\ (rec'.thread = BAD \/ rec'.frame = BAD)

(* C19: a record with at least 4 columns whose thread id or frame index does
   not parse counts a warning about it and is skipped: its function is not
   dispatched, so that no entry point is called for it, the call counters and
   the other statistics do not change, and neither registry changes. *)
C19_MalformedHeader ==
    [][ MalformedHeader =>
          /\ CountOf(warns', "Incorrect thread ID")
               + CountOf(warns', "Incorrect frame index") >= 1
          /\ OperationCalls = << >>
          /\ player'.m_Allocations = player.m_Allocations
          /\ player'.m_Pools = player.m_Pools
          /\ player'.m_Stats = player.m_Stats ]_vars

(* C20: a record with fewer than 4 columns counts exactly one warning and
   changes nothing else: no entry point is called, and the registries, the
   statistics, the call counters of the threads, the last timestamp and the
   current frame index are what they were. *)
C20_TooFewColumns ==
    [][ (StepLine /\ rec'.count < FIRST_PARAM_INDEX) =>
          /\ warns' = <<"Too few columns">>
          /\ calls' = << >>
          /\ player'.m_WarningCount = player.m_WarningCount + 1
          /\ player'.m_Allocations = player.m_Allocations
          /\ player'.m_Pools = player.m_Pools
          /\ player'.m_Stats = player.m_Stats
          /\ player'.m_Threads = player.m_Threads
          /\ player'.m_LastLineTimeStr = player.m_LastLineTimeStr
          /\ player'.m_VmaFrameIndex = player.m_VmaFrameIndex
          /\ player' = [player EXCEPT !.m_WarningCount = @ + 1] ]_vars

\* A buffer is registered, and a record of three columns with another thread id
\* and another frame index follows: one warning, and neither the thread nor the
\* frame index of the record is taken up.
C20_Witness ==
    /\ AfterLine /\ nlines = 2
    /\ rec.count = 3 /\ rec.thread = 2 /\ rec.frame = 1
    /\ warns = <<"Too few columns">>
    /\ calls = << >>
    /\ DOMAIN player.m_Allocations = {1}
    /\ DOMAIN player.m_Threads = {1}
    /\ player.m_VmaFrameIndex = 0
    /\ player.m_WarningCount = 1

----------------------------------------------------------------------------
(* The playback loop over the lines of a file, with and without --Lines *)

MaxFileLines == 3

\* RangeSequence<size_t>::Includes: the number lies in one of the ranges.
Includes(ranges, n) == \E range \in ranges : range.first <= n /\ n <= range.last

\* The lines "first-last" of --Lines.
LineRange(first, last) == [first |-> first, last |-> last]

\* A file with a good header and version whose line k + 2 is lines[k].
FilePlay(lines) ==
    [state |-> "ok", line1 |-> TRUE, versionOk |-> TRUE,
     major |-> U32Of(1), minor |-> U32Of(0), lines |-> lines]

\* while(lineSplit.GetNextLine(line)), over the lines of the file that are
\* left: the line is executed unless --Lines was given and leaves it out.
ReadLineZeroBased ==
    /\ pc = "playing"
    /\ lineSplit < Len(file.lines) + 2
    /\ LET execute == IF g_LineRanges # {} THEN Includes(g_LineRanges, lineSplit)
                      ELSE TRUE
       IN  IF execute
           THEN ExecuteLine(file.lines[lineSplit - 1], nlines + 1)
           ELSE /\ lineSplit' = lineSplit + 1
                /\ UNCHANGED <<pc, file, g_Verbosity, g_UserDataEnabled, g_IterationCount,
                               g_FileVersion, iter, iterResults, exitStatus, player,
                               nlines, rec, calls, warns, shown, suppressedReport,
                               nextHandle, life, g_LineRanges, executed, printed,
                               handles>>

ReadLine ==
    /\ pc = "playing"
    /\ lineSplit < Len(file.lines) + 2
    /\ LET execute == IF g_LineRanges # {} THEN Includes(g_LineRanges, lineSplit + 1)
                      ELSE TRUE
       IN  IF execute
           THEN ExecuteLine(file.lines[lineSplit - 1], nlines + 1)
           ELSE /\ lineSplit' = lineSplit + 1
                /\ UNCHANGED <<pc, file, g_Verbosity, g_UserDataEnabled, g_IterationCount,
                               g_FileVersion, iter, iterResults, exitStatus, player,
                               nlines, rec, calls, warns, shown, suppressedReport,
                               nextHandle, life, g_LineRanges, executed, printed,
                               handles>>

\* GetNextLine returns false: the loop ends and the player is destroyed.
EndOfFile ==
    /\ lineSplit = Len(file.lines) + 2
    /\ EndIteration

\* Lines with every kind of anomaly: too few columns, an unknown function, a
\* creation that succeeds or fails live (and repeats its id when played twice),
\* a parameter that does not convert, an id that may not be registered.
LinesPlay ==
    { Rec("vmaCreateBuffer", 3, 1),
      Rec("vmaNoSuchFunction", 5, 1),
      Rec("vmaCreateBuffer", 15, 1),
      [Rec("vmaCreateBuffer", 15, 1) EXCEPT !.live = FALSE],
      [Rec("vmaMapMemory", 5, 1) EXCEPT !.dec = FALSE],
      Rec("vmaDestroyBuffer", 5, 1) }

FilesPlay == {FilePlay(lines) : lines \in UNION {[1..k -> LinesPlay] : k \in 0..MaxFileLines}}

LineRangesPlay ==
    { {}, {LineRange(1, 3)}, {LineRange(4, 4)},
      {LineRange(2, 3), LineRange(5, MaxFileLines + 2)} }

InitPlay ==
    InitWithRanges(FilesPlay, {VERBOSITY_DEFAULT}, {TRUE}, {1}, LineRangesPlay)

NextPlay ==
    \/ OpenFile
    \/ BeginIteration
    \/ ReadLine
    \/ EndOfFile

\* The program is sequential: a step that can be taken is taken.
SpecPlay == InitPlay /\ [][NextPlay]_vars /\ WF_vars(NextPlay)

\* The numbers of the lines from line 3 on that are to be played, in file order.
IncludedLineNumbers ==
    SelectSeq([k \in 1..Len(file.lines) |-> k + 2],
              LAMBDA n : g_LineRanges = {}
                         \/ \E range \in g_LineRanges : range.first <= n /\ n <= range.last)

RECURSIVE PlayAll(_, _)
\* The machine after the lines of the given numbers were played from s, in order.
PlayAll(s, numbers) ==
    IF numbers = << >> THEN s
    ELSE PlayAll(PlayerExecuteLine(s, file.lines[Head(numbers) - 2]), Tail(numbers))

\* A player that has just been initialised, and its surroundings.
FreshMachine ==
    [p |-> [NewPlayer EXCEPT !.m_Allocator = 1], calls |-> << >>, warns |-> << >>,
     shown |-> {}, next |-> 0, printed |-> << >>]

(* C21: every run over a file with a good header and version comes to its
   end.  When the playback loop of an iteration ends, every line of the file
   has been read, the lines handed to the player are exactly the lines from
   line 3 on that --Lines includes (all of them without --Lines), once each
   and in file order, and the player is in the state that playing just these
   lines in this order leads to, whatever they warned about.  Reading a line
   that --Lines leaves out changes nothing but the position in the file. *)
C21_PlaysEveryLine ==
    /\ [][ StepTeardown =>
             /\ lineSplit = Len(file.lines) + 2
             /\ executed = IncludedLineNumbers
             /\ nlines = Len(IncludedLineNumbers)
             /\ player = PlayAll(FreshMachine, IncludedLineNumbers).p
             /\ nextHandle = PlayAll(FreshMachine, IncludedLineNumbers).next ]_vars
    /\ [][ (pc = "playing" /\ lineSplit' = lineSplit + 1 /\ nlines' = nlines) =>
             UNCHANGED <<pc, player, nextHandle, shown, executed, iterResults>> ]_vars
    /\ <>(pc = "exit")

\* A run over three lines of which --Lines includes line 3 and line 5 has ended;
\* both were played and warned.
C21_Witness ==
    /\ pc = "exit"
    /\ Len(file.lines) = 3
    /\ g_LineRanges # {}
    /\ executed = <<3, 5>>
    /\ player.m_WarningCount >= 2

----------------------------------------------------------------------------
(* The messages a record prints *)

MaxLinesSink == 3

RecordsSink ==
    { Rec("vmaCreateBuffer", 15, 1),
      [Rec("vmaCreateBuffer", 15, 0) EXCEPT !.live = FALSE],
      Rec("vmaMapMemory", 5, 1),
      [Rec("vmaMapMemory", 5, 1) EXCEPT !.live = FALSE],
      Rec("vmaNoSuchFunction", 5, 1),
      Rec("vmaDestroyBuffer", 5, 1) }

InitSink ==
    InitWith({FileOk}, {VERBOSITY_DEFAULT, VERBOSITY_MAXIMUM}, {TRUE}, {1})

NextSink ==
    \/ OpenFile
    \/ BeginIteration
    \/ \E r \in RecordsSink : ExecuteLine(r, MaxLinesSink)
    \/ EndIteration

SpecSink == InitSink /\ [][NextSink]_vars

(* C22: while records are played the warning count never goes down, and every
   message a record prints has gone through the warning sink: the record
   prints as many messages as the sink let through, each of them a warning the
   record counted, and the count goes up by one for each. *)
C22_CountedSink ==
    [][ /\ (pc = "playing" /\ pc' = "playing") =>
              player'.m_WarningCount >= player.m_WarningCount
        /\ StepLine =>
              /\ player'.m_WarningCount = player.m_WarningCount + Len(warns')
              /\ Len(printed') = Cardinality(shown' \ shown)
              /\ \A i \in DOMAIN printed' :
                    \E j \in DOMAIN warns' : printed'[i] = warns'[j] ]_vars

----------------------------------------------------------------------------
(* The same file played several times *)

MaxFileLinesRepeat == 3

\* Lines that leave something behind in every part of the player: a registered
\* buffer, a pool, the advisory of allocate-for-buffer and a divergence, another
\* frame index and another thread.
LinesRepeat ==
    { Rec("vmaCreateBuffer", 15, 1),
      Rec("vmaCreatePool", 11, 1),
      Rec("vmaAllocateMemoryForBuffer", 16, 0),
      [Rec("vmaNoSuchFunction", 5, 1) EXCEPT !.thread = 2, !.frame = 1] }

FilesRepeat ==
    {FilePlay(lines) : lines \in UNION {[1..k -> LinesRepeat] : k \in 0..MaxFileLinesRepeat}}

InitRepeat ==
    InitWith(FilesRepeat, {VERBOSITY_DEFAULT}, {TRUE}, 1..MaxIterations)

SpecRepeat == InitRepeat /\ [][NextPlay]_vars

\* The numbers of the lines of the file from line 3 on.
AllLineNumbers == [k \in 1..Len(file.lines) |-> k + 2]

(* C23: whatever the number of iterations, when the first record of an
   iteration is about to be played both registries are empty, every counter of
   the statistics and of the threads is zero, the warning count is zero, the
   frame index is 0 and the advisory of allocate-for-buffer/image has not been
   given; and when the playback loop of an iteration ends, the registries, the
   statistics and the warning count are those of a single run over the file. *)
C23_IndependentIterations ==
    [][ /\ (pc = "playing" /\ nlines = 0) =>
              /\ player.m_Pools = << >>
              /\ player.m_Allocations = << >>
              /\ player.m_Stats = NewStatistics
              /\ player.m_Threads = << >>
              /\ player.m_WarningCount = 0
              /\ player.m_VmaFrameIndex = 0
              /\ ~player.m_AllocateForBufferImageWarningIssued
        /\ StepTeardown =>
              LET single == PlayAll(FreshMachine, AllLineNumbers).p
              IN  /\ player.m_Pools = single.m_Pools
                  /\ player.m_Allocations = single.m_Allocations
                  /\ player.m_Stats = single.m_Stats
                  /\ player.m_WarningCount = single.m_WarningCount ]_vars

\* The second iteration has played its first line, an allocate-for-buffer
\* record: the advisory is given again and the warning count starts from zero.
C23_Witness ==
    /\ pc = "playing" /\ iter = 1 /\ nlines = 1
    /\ g_IterationCount = 2
    /\ Len(iterResults) = 1
    /\ rec.fn = "vmaAllocateMemoryForBuffer"
    /\ CountOf(warns, "cannot be replayed accurately") = 1
    /\ player.m_WarningCount = 2
    /\ player.m_Stats.m_AllocationCreationCount = 1

----------------------------------------------------------------------------
(* Files that do not load *)

\* The file has no first line or another one than the header, or no second
\* line, one that is not two numbers, or a version other than 1,0 1,1 and 1,2.
FormatFailure ==
    file.state = "ok" /\ ~(file.line1 /\ file.versionOk /\ SupportedVersion)

(* C24: of a file whose first line is not the header, or whose second line is
   missing, is not two numbers or is not a supported version, every iteration
   returns the format error before a player is created: no record is played,
   no entry point of the allocator is called and the statistics stay empty. *)
C24_FormatFailure ==
    FormatFailure =>
        /\ pc # "playing"
        /\ nlines = 0
        /\ calls = << >>
        /\ player = NewPlayer
        /\ \A i \in DOMAIN iterResults : iterResults[i] = RESULT_ERROR_FORMAT

----------------------------------------------------------------------------
(* The user data column of a creation record *)

MaxLinesUserData == 2

\* Creation records without and with a user data column; the column converts
\* to a pointer or does not, and the flags ask for a string or do not.
RecordsUserData ==
    {Rec(fn, MinCount(fn), 1) : fn \in PoolCreationFns}
    \cup {[Rec(fn, MinCount(fn) + 1, 1) EXCEPT !.ud = ud, !.flags = fl] :
            fn \in PoolCreationFns, ud \in {BAD, 1},
            fl \in {{}, {USER_DATA_COPY_STRING_BIT}}}
    \cup {[Rec("vmaSetAllocationUserData", 6, 1) EXCEPT !.ud = BAD],
          [Rec("vmaCreateBuffer", 16, 0) EXCEPT !.ud = BAD, !.live = FALSE]}

InitUserData == InitWith({FileOk}, {VERBOSITY_DEFAULT}, BOOLEAN, {1})

NextUserData ==
    \/ OpenFile
    \/ BeginIteration
    \/ \E r \in RecordsUserData : ExecuteLine(r, MaxLinesUserData)
    \/ EndIteration

SpecUserData == InitUserData /\ [][NextUserData]_vars

\* The record of the step has a user data column.
HasUserData == rec'.count > MinCount(rec'.fn)

(* C25: while user data is disabled no record counts an 'invalid pUserData'
   warning, and every well-formed buffer, image, allocate-memory and
   allocate-memory-for-buffer/image record makes its creation call with a null
   user data pointer, whatever its user data column holds. *)
C25_UserDataDisabled ==
    [][ (StepLine /\ ~g_UserDataEnabled) =>
          /\ CountOf(warns', "Invalid pUserData") = 0
          /\ PoolCreation =>
                /\ Len(CreateCalls) = 1
                /\ CreateCalls[1].ud = "null" ]_vars

\* User data is disabled and an image record whose user data column does not
\* convert was played: a null pointer and no warning.
C25_Witness ==
    /\ AfterLine /\ ~g_UserDataEnabled
    /\ rec.fn = "vmaCreateImage" /\ rec.count = MinCount("vmaCreateImage") + 1
    /\ rec.ud = BAD /\ rec.flags = {}
    /\ warns = << >>
    /\ Len(calls) = 1 /\ calls[1].fn = "vmaCreateImage" /\ calls[1].ud = "null"
    /\ 1 \in DOMAIN player.m_Allocations

(* C26: with user data enabled, a well-formed creation record with a user data
   column that does not convert to a pointer, and whose flags do not ask for a
   string, counts exactly one 'invalid pUserData' warning, still makes its
   creation call, with a null user data pointer, and is reconciled and
   registered as any creation.  When the flags ask for a string no such
   warning is counted whatever the column holds, and the call is made with the
   string. *)
C26_InvalidUserData ==
    [][ (StepLine /\ g_UserDataEnabled /\ PoolCreation /\ HasUserData) =>
          /\ Len(CreateCalls) = 1
          /\ Reconciled
          /\ IF USER_DATA_COPY_STRING_BIT \in rec'.flags
             THEN /\ CountOf(warns', "Invalid pUserData") = 0
                  /\ CreateCalls[1].ud = "str"
             ELSE IF rec'.ud = BAD
             THEN /\ CountOf(warns', "Invalid pUserData") = 1
                  /\ CreateCalls[1].ud = "null"
             ELSE /\ CountOf(warns', "Invalid pUserData") = 0
                  /\ CreateCalls[1].ud = "ptr" ]_vars

\* An allocate-memory record with a user data column that does not convert was
\* played with user data enabled: one warning, a null pointer, and the
\* allocation is registered with its live handle.
C26_Witness ==
    /\ AfterLine /\ g_UserDataEnabled
    /\ rec.fn = "vmaAllocateMemory" /\ rec.count = MinCount("vmaAllocateMemory") + 1
    /\ rec.ud = BAD /\ rec.flags = {}
    /\ warns = <<"Invalid pUserData">>
    /\ Len(calls) = 1 /\ calls[1].fn = "vmaAllocateMemory"
    /\ calls[1].ud = "null" /\ calls[1].res
    /\ player.m_Allocations[1].allocation = calls[1].h

----------------------------------------------------------------------------
(* The advisory of vmaAllocateMemoryForBuffer and vmaAllocateMemoryForImage *)

MaxLinesAdvisory == 24

ForBufferOrImageFns == {"vmaAllocateMemoryForBuffer", "vmaAllocateMemoryForImage"}

\* A for-image record that does not decode and counts three warnings, a
\* for-buffer record that is too short, and a record of each function that is
\* played.
RecordsAdvisory ==
    { [Rec("vmaAllocateMemoryForImage", MinCount("vmaAllocateMemoryForImage"), 0)
          EXCEPT !.dec = FALSE, !.thread = BAD, !.frame = BAD],
      Rec("vmaAllocateMemoryForBuffer", MinCount("vmaAllocateMemoryForBuffer") - 1, 0),
      [Rec("vmaAllocateMemoryForBuffer", MinCount("vmaAllocateMemoryForBuffer"), 0)
          EXCEPT !.live = FALSE],
      [Rec("vmaAllocateMemoryForImage", MinCount("vmaAllocateMemoryForImage"), 0)
          EXCEPT !.live = FALSE] }

InitAdvisory == InitWith({FileOk}, {VERBOSITY_DEFAULT}, {TRUE}, {1})

NextAdvisory ==
    \/ OpenFile
    \/ BeginIteration
    \/ \E r \in RecordsAdvisory : ExecuteLine(r, MaxLinesAdvisory)
    \/ EndIteration

SpecAdvisory == InitAdvisory /\ [][NextAdvisory]_vars

(* C27: within one playback the 'cannot be replayed accurately' advisory is
   counted at most once: a record counts it exactly when it raises the flag
   of the player, every well-formed allocate-memory-for-buffer or
   allocate-memory-for-image record leaves the flag raised, no record lowers
   it, and a record played with the flag raised counts no advisory, whether
   or not the first advisory was shown, and whichever of the two functions
   raised the flag. *)
C27_OneAdvisory ==
    [][ StepLine =>
          /\ CountOf(warns', "cannot be replayed accurately") =
                IF player'.m_AllocateForBufferImageWarningIssued
                   /\ ~player.m_AllocateForBufferImageWarningIssued
                THEN 1 ELSE 0
          /\ player.m_AllocateForBufferImageWarningIssued
                => player'.m_AllocateForBufferImageWarningIssued
          /\ (rec'.fn \in ForBufferOrImageFns /\ WellFormed(rec'))
                => player'.m_AllocateForBufferImageWarningIssued
          /\ (~(rec'.fn \in ForBufferOrImageFns /\ WellFormed(rec')))
                => player'.m_AllocateForBufferImageWarningIssued
                   = player.m_AllocateForBufferImageWarningIssued ]_vars

\* The first advisory was counted beyond the cap, so not shown, and there is
\* a line left to play.
C27_Witness ==
    /\ AfterLine /\ nlines = MaxLinesAdvisory - 1
    /\ rec.fn = "vmaAllocateMemoryForBuffer" /\ WellFormed(rec)
    /\ warns = <<"cannot be replayed accurately", "failed, originally also failed">>
    /\ printed = << >>
    /\ player.m_AllocateForBufferImageWarningIssued
    /\ player.m_WarningCount > MAX_WARNINGS_TO_SHOW

----------------------------------------------------------------------------
(* The counters of class Statistics *)

MaxLinesStats == 2

\* Every counted function with a record that is played, whose live call
\* succeeds or fails; creation records that do not decode or are too short;
\* buffers and images of several usages and tilings; a record of no counted
\* function and a line without a function column.
RecordsStats ==
    {[Rec(fn, MinCount(fn), 1) EXCEPT !.live = l] :
        fn \in VMA_FUNCTION_NAMES, l \in BOOLEAN}
    \cup {[Rec(fn, MinCount(fn), 1) EXCEPT !.dec = FALSE] :
            fn \in CreateAllocationFns \cup {"vmaCreatePool"}}
    \cup {Rec(fn, MinCount(fn) - 1, 1) :
            fn \in {"vmaCreatePool", "vmaCreateBuffer", "vmaCreateImage",
                    "vmaSetAllocationUserData"}}
    \cup {[Rec("vmaCreateBuffer", MinCount("vmaCreateBuffer"), 0)
              EXCEPT !.usage = u, !.live = FALSE] :
            u \in {{"VERTEX_BUFFER", "STORAGE_BUFFER"}, {"UNIFORM_BUFFER"}}}
    \cup {[Rec("vmaCreateImage", MinCount("vmaCreateImage"), 0)
              EXCEPT !.usage = {"SAMPLED"}, !.tiling = t, !.live = FALSE] :
            t \in {0, VK_IMAGE_TILING_LINEAR}}
    \cup {Rec("vmaNoSuchFunction", FIRST_PARAM_INDEX, 0), Rec("", 3, 0)}

InitStats == InitWith({FileOk}, {VERBOSITY_DEFAULT}, BOOLEAN, {1})

NextStats ==
    \/ OpenFile
    \/ BeginIteration
    \/ \E r \in RecordsStats : ExecuteLine(r, MaxLinesStats)
    \/ EndIteration

SpecStats == InitStats /\ [][NextStats]_vars

\* The sum of the four counters of f.
SumOfClasses(f) == f[0] + f[1] + f[2] + f[3]

\* The counters of Statistics other than the call counters, before and after
\* the step, differ by one in the counters of kinds and in nothing else.
CreationCounted(kinds) ==
    LET old == player.m_Stats
        new == player'.m_Stats
        Plus(kind) == IF kind \in kinds THEN 1 ELSE 0
    IN  /\ new.m_PoolCreationCount = old.m_PoolCreationCount + Plus(<<"pool", 0>>)
        /\ new.m_LinearImageCreationCount
              = old.m_LinearImageCreationCount + Plus(<<"linear", 0>>)
        /\ new.m_AllocationCreationCount
              = old.m_AllocationCreationCount + Plus(<<"allocation", 0>>)
        /\ \A c \in 0..3 :
              /\ new.m_BufferCreationCount[c]
                    = old.m_BufferCreationCount[c] + Plus(<<"buffer", c>>)
              /\ new.m_ImageCreationCount[c]
                    = old.m_ImageCreationCount[c] + Plus(<<"image", c>>)

(* C28: a record that names one of the 19 counted functions raises the call
   counter of that function by one and no other call counter, whatever
   becomes of it.  A creation record with the columns its function takes, all
   of which convert, raises by one, also when its live call fails: the pool
   counter (create pool); one buffer class counter and the total of
   allocations (create buffer); the linear counter or one image class counter
   and the total of allocations (create image); the total of allocations
   alone (allocate memory, for buffer, for image, lost allocation); every
   other record leaves these counters as they are.  So the pool counter never
   exceeds the call counter of create pool, and the total of allocations is
   the buffers, images and linear images counted plus the raw, for-buffer,
   for-image and lost allocations counted, hence never less than the
   former. *)
C28_Statistics ==
    /\ [][ StepLine =>
            /\ \A f \in VMA_FUNCTION_NAMES :
                  player'.m_Stats.m_FunctionCallCount[f] =
                      player.m_Stats.m_FunctionCallCount[f]
                      + IF rec'.count >= FIRST_PARAM_INDEX /\ rec'.fn = f THEN 1 ELSE 0
            /\ IF ~(rec'.count >= FIRST_PARAM_INDEX /\ WellFormed(rec'))
               THEN CreationCounted({})
               ELSE CASE rec'.fn = "vmaCreatePool" -> CreationCounted({<<"pool", 0>>})
                      [] rec'.fn = "vmaCreateBuffer" ->
                            \E c \in 0..3 : CreationCounted({<<"buffer", c>>, <<"allocation", 0>>})
                      [] rec'.fn = "vmaCreateImage" ->
                            \/ \E c \in 0..3 : CreationCounted({<<"image", c>>, <<"allocation", 0>>})
                            \/ CreationCounted({<<"linear", 0>>, <<"allocation", 0>>})
                      [] rec'.fn \in {"vmaAllocateMemory", "vmaAllocateMemoryForBuffer",
                                      "vmaAllocateMemoryForImage", "vmaCreateLostAllocation"} ->
                            CreationCounted({<<"allocation", 0>>})
                      [] OTHER -> CreationCounted({}) ]_vars
    /\ [](pc = "playing" =>
            /\ player.m_Stats.m_PoolCreationCount
                  <= player.m_Stats.m_FunctionCallCount["vmaCreatePool"]
            /\ player.m_Stats.m_AllocationCreationCount
                  >= SumOfClasses(player.m_Stats.m_BufferCreationCount)
                     + SumOfClasses(player.m_Stats.m_ImageCreationCount)
                     + player.m_Stats.m_LinearImageCreationCount)

\* An allocate-memory record whose live call failed was played after a create
\* pool record that was too short: the allocation is counted, the pool is not.
C28_Witness ==
    /\ AfterLine /\ nlines = 2
    /\ rec.fn = "vmaAllocateMemory" /\ WellFormed(rec) /\ ~rec.live
    /\ Len(calls) = 1 /\ ~calls[1].res
    /\ player.m_Stats.m_AllocationCreationCount = 1
    /\ player.m_Stats.m_FunctionCallCount["vmaAllocateMemory"] = 1
    /\ player.m_Stats.m_FunctionCallCount["vmaCreatePool"] = 1
    /\ player.m_Stats.m_PoolCreationCount = 0

----------------------------------------------------------------------------
(* The usage classes of buffers and images *)

MaxLinesUsage == 1
MaxUsageBits == 3

TransferBits == {"TRANSFER_SRC", "TRANSFER_DST"}
\* VkBufferUsageFlagBits
BufferUsageBits ==
    TransferBits \cup BufferClass0Bits \cup BufferClass1Bits \cup BufferClass2Bits
\* VkImageUsageFlagBits
ImageUsageBits ==
    TransferBits \cup {"STORAGE"} \cup ImageClass0Bits \cup ImageClass1Bits
    \cup ImageClass2Bits

\* The usage masks with at most MaxUsageBits bits set.
Masks(bits) == {u \in SUBSET bits : Cardinality(u) <= MaxUsageBits}

\* Create buffer and create image records of every such usage, images of
\* optimal and of linear tiling.
RecordsUsage ==
    {[Rec("vmaCreateBuffer", MinCount("vmaCreateBuffer"), 0)
         EXCEPT !.usage = u, !.live = FALSE] : u \in Masks(BufferUsageBits)}
    \cup {[Rec("vmaCreateImage", MinCount("vmaCreateImage"), 0)
              EXCEPT !.usage = u, !.tiling = t, !.live = FALSE] :
            u \in Masks(ImageUsageBits), t \in {0, VK_IMAGE_TILING_LINEAR}}

InitUsage == InitWith({FileOk}, {VERBOSITY_DEFAULT}, {TRUE}, {1})

NextUsage ==
    \/ OpenFile
    \/ BeginIteration
    \/ \E r \in RecordsUsage : ExecuteLine(r, MaxLinesUsage)
    \/ EndIteration

SpecUsage == InitUsage /\ [][NextUsage]_vars

\* The first of the four classes, in the order given, that usage has a bit of;
\* the last class takes what is left.
FirstClass(usage, classes) ==
    CHOOSE c \in 0..3 :
        /\ c = 3 \/ usage \cap classes[c + 1] # {}
        /\ \A d \in 0..(c - 1) : usage \cap classes[d + 1] = {}

BufferClasses ==
    << {"INDIRECT_BUFFER", "VERTEX_BUFFER", "INDEX_BUFFER"},
       {"STORAGE_BUFFER", "STORAGE_TEXEL_BUFFER"},
       {"UNIFORM_BUFFER", "UNIFORM_TEXEL_BUFFER"} >>

ImageClasses ==
    << {"DEPTH_STENCIL_ATTACHMENT"},
       {"INPUT_ATTACHMENT", "TRANSIENT_ATTACHMENT", "COLOR_ATTACHMENT"},
       {"SAMPLED"} >>

(* C29: a create buffer record is counted in the first class its usage
   matches in the order indirect/vertex/index, storage, uniform, otherwise,
   and an image record of a tiling other than linear in the first of
   depth/stencil attachment, input/transient/colour attachment, sampled,
   otherwise; the class is that of the usage without its transfer-source and
   transfer-destination bits; an image record of linear tiling is counted in
   the linear counter and in no class counter, whatever its usage. *)
C29_UsageClass ==
    [][ (StepLine /\ WellFormed(rec')) =>
          LET usage == rec'.usage \ {"TRANSFER_SRC", "TRANSFER_DST"} IN
          CASE rec'.fn = "vmaCreateBuffer" ->
                 CreationCounted({<<"buffer", FirstClass(usage, BufferClasses)>>,
                                  <<"allocation", 0>>})
            [] rec'.fn = "vmaCreateImage" /\ rec'.tiling = VK_IMAGE_TILING_LINEAR ->
                 CreationCounted({<<"linear", 0>>, <<"allocation", 0>>})
            [] rec'.fn = "vmaCreateImage" /\ rec'.tiling # VK_IMAGE_TILING_LINEAR ->
                 CreationCounted({<<"image", FirstClass(usage, ImageClasses)>>,
                                  <<"allocation", 0>>})
            [] OTHER -> TRUE ]_vars

\* An image of optimal tiling that is sampled, a colour attachment and a
\* transfer destination was counted as an attachment.
C29_Witness ==
    /\ AfterLine
    /\ rec.fn = "vmaCreateImage" /\ rec.tiling # VK_IMAGE_TILING_LINEAR
    /\ rec.usage = {"SAMPLED", "COLOR_ATTACHMENT", "TRANSFER_DST"}
    /\ player.m_Stats.m_ImageCreationCount[1] = 1
    /\ player.m_Stats.m_AllocationCreationCount = 1

----------------------------------------------------------------------------
(* The kind of a registered allocation *)

(* C30: every entry of the allocation registry has a null buffer handle or a
   null image handle, and no step, of a record or of the teardown, fails the
   assertion of Destroy that the image handle is null when the buffer handle
   is not. *)
C30_ResourceKind ==
    /\ [](\A id \in DOMAIN player.m_Allocations :
             \/ player.m_Allocations[id].buffer = VK_NULL_HANDLE
             \/ player.m_Allocations[id].image = VK_NULL_HANDLE)
    /\ [][ \A i \in DOMAIN printed' :
             printed'[i] # "Assertion failed: alloc.image == VK_NULL_HANDLE" ]_vars

\* An image was registered under the id of a buffer, in its place, and only
\* its image handle is set; the teardown is still to destroy it.
C30_Witness ==
    /\ AfterLine /\ nlines = 2
    /\ rec.fn = "vmaCreateImage" /\ rec.id = 1
    /\ CountOf(warns, "Allocation already exists") = 1
    /\ player.m_Stats.m_FunctionCallCount["vmaCreateBuffer"] = 1
    /\ player.m_Allocations[1].image # VK_NULL_HANDLE
    /\ player.m_Allocations[1].buffer = VK_NULL_HANDLE

----------------------------------------------------------------------------
(* A buffer created and destroyed *)

MaxFileLinesPair == 2

\* Create buffer records of every nonzero id, whose live call succeeds or
\* fails, of frame 0 or 1, and the destroy buffer records of the ids.
LinesPair ==
    {[Rec("vmaCreateBuffer", MinCount("vmaCreateBuffer"), id)
         EXCEPT !.live = l, !.frame = f] :
        id \in 1..MaxAllocId, l \in BOOLEAN, f \in ZeroAndOne}
    \cup {Rec("vmaDestroyBuffer", MinCount("vmaDestroyBuffer"), id) : id \in 1..MaxAllocId}

\* Files of version 1.0, which is accepted, and 1.3, which is not.
FilesPair ==
    {[FilePlay(lines) EXCEPT !.minor = U32Of(m)] :
        lines \in UNION {[1..k -> LinesPair] : k \in 0..MaxFileLinesPair},
        m \in {0, 3}}

InitPair == InitWith(FilesPair, {VERBOSITY_DEFAULT}, {TRUE}, {1})

SpecPair == InitPair /\ [][NextPlay]_vars

\* The file is a create buffer record of a nonzero id, of frame 0, whose live
\* call succeeds, and a destroy buffer record of the id.
CreateThenDestroy ==
    /\ Len(file.lines) = 2
    /\ file.lines[1].fn = "vmaCreateBuffer" /\ WellFormed(file.lines[1])
    /\ file.lines[1].id # 0 /\ file.lines[1].frame = 0 /\ file.lines[1].live
    /\ file.lines[2].fn = "vmaDestroyBuffer" /\ WellFormed(file.lines[2])
    /\ file.lines[2].id = file.lines[1].id /\ file.lines[2].frame = 0

(* C31: when the file is a valid header, an accepted version, a well-formed
   create buffer record of a nonzero id X (frame 0, live call succeeding) and
   a well-formed destroy buffer record of X, the first record calls
   vmaCreateBuffer and nothing else and registers X with the handle created,
   the second calls vmaDestroyBuffer on that handle and nothing else and
   erases X, and the loop ends with one buffer counted, both registries
   empty, no warning counted, and a teardown that destroys the allocator
   alone. *)
C31_CreateThenDestroy ==
    /\ [][ (CreateThenDestroy /\ pc = "playing" /\ lineSplit = 2 /\ lineSplit' = 3) =>
             /\ Len(calls') = 1 /\ calls'[1].fn = "vmaCreateBuffer"
             /\ calls'[1].res /\ calls'[1].h # VK_NULL_HANDLE
             /\ warns' = << >>
             /\ DOMAIN player'.m_Allocations = {file.lines[1].id}
             /\ player'.m_Allocations[file.lines[1].id].allocation = calls'[1].h ]_vars
    /\ [][ (CreateThenDestroy /\ pc = "playing" /\ lineSplit = 3 /\ lineSplit' = 4) =>
             /\ calls' = <<[calls[1] EXCEPT !.fn = "vmaDestroyBuffer", !.res = TRUE]>>
             /\ calls'[1].h = player.m_Allocations[file.lines[1].id].allocation
             /\ warns' = << >>
             /\ player'.m_Allocations = << >> ]_vars
    /\ []((CreateThenDestroy /\ pc = "playing" /\ lineSplit = 4) =>
             /\ player.m_Allocations = << >> /\ player.m_Pools = << >>
             /\ player.m_WarningCount = 0
             /\ SumOfClasses(player.m_Stats.m_BufferCreationCount) = 1
             /\ player.m_Stats.m_AllocationCreationCount = 1
             /\ player.m_Stats.m_FunctionCallCount["vmaCreateBuffer"] = 1
             /\ player.m_Stats.m_FunctionCallCount["vmaDestroyBuffer"] = 1)
    /\ [][ (CreateThenDestroy /\ pc = "playing" /\ lineSplit = 4 /\ pc' # "playing") =>
             /\ Len(calls') = 1 /\ calls'[1].fn = "vmaDestroyAllocator"
             /\ printed' = << >> ]_vars

\* The buffer of id 2 was created and destroyed and the loop is over.
C31_Witness ==
    /\ CreateThenDestroy /\ file.lines[1].id = 2
    /\ pc = "playing" /\ lineSplit = 4
    /\ executed = <<3, 4>>
    /\ Len(calls) = 1 /\ calls[1].fn = "vmaDestroyBuffer"
    /\ player.m_Allocations = << >>

----------------------------------------------------------------------------
(* What becomes of the live handles *)

MaxLinesHandles == 3

\* Creations under id 1 and under id 0, in and out of pool 1, whose live call
\* succeeds or fails, and the records that work on id 1 or destroy it.
RecordsHandles ==
    {[Rec(fn, MinCount(fn), 1) EXCEPT !.live = l] :
        fn \in {"vmaCreateBuffer", "vmaCreatePool"}, l \in BOOLEAN}
    \cup {Rec(fn, MinCount(fn), 0) : fn \in {"vmaAllocateMemory", "vmaCreatePool"}}
    \cup {Rec("vmaCreateImage", MinCount("vmaCreateImage"), 1),
          [Rec("vmaAllocateMemory", MinCount("vmaAllocateMemory"), 1) EXCEPT !.pool = 1]}
    \cup {Rec(fn, MinCount(fn), 1) :
            fn \in {"vmaMapMemory", "vmaSetAllocationUserData", "vmaDestroyBuffer",
                    "vmaFreeMemory", "vmaDestroyPool", "vmaMakePoolAllocationsLost"}}

InitHandles == InitWith({FileOk}, {VERBOSITY_DEFAULT}, {TRUE}, {1})

NextHandles ==
    \/ OpenFile
    \/ BeginIteration
    \/ \E r \in RecordsHandles : ExecuteLine(r, MaxLinesHandles)
    \/ EndIteration

SpecHandles == InitHandles /\ [][NextHandles]_vars

(* C32: after the teardown, the live handles that successful creation calls
   returned and that no destroy entry point was passed are exactly those of
   the registry entries that a later creation under the same original id
   replaced; when no entry was replaced, every such handle, of a pool or of
   an allocation, was passed to a destroy entry point, and none twice. *)
C32_LeakAccounting ==
    TornDown =>
       /\ handles.created \ handles.destroyed = handles.overwritten
       /\ handles.overwritten = {} =>
             /\ handles.destroyed = handles.created
             /\ handles.again = {}

\* A buffer and a pool were created, an image took the id of the buffer, and
\* the teardown destroyed the image and the pool: the buffer is what is left.
C32_Witness ==
    /\ TornDown
    /\ handles.created = {1, 2, 3}
    /\ handles.overwritten = {1}
    /\ handles.destroyed = {2, 3}
    /\ rec.fn = "vmaCreateImage"
    /\ CallsTo(calls, {"vmaDestroyPool"}) # << >>
    /\ CallsTo(calls, {"vmaDestroyImage"}) # << >>

----------------------------------------------------------------------------
(* Records that refer to the original id 0 *)

\* The functions of the records that refer to an object there is by its id.
ReferringFns == DestroyAllocationFns \cup UseAllocationFns \cup PoolFns

(* C33: a well-formed record of destroy buffer, destroy image, free memory,
   map, unmap, flush, invalidate, touch, get allocation info, set user data,
   destroy pool or make pool allocations lost whose id is 0 makes no call of
   its operation, counts no warning and leaves both registries as they are. *)
C33_ZeroIsSilent ==
    [][ (StepLine /\ WellFormed(rec') /\ rec'.fn \in ReferringFns /\ rec'.id = 0) =>
          /\ OperationCalls = << >>
          /\ warns' = << >>
          /\ player'.m_Allocations = player.m_Allocations
          /\ player'.m_Pools = player.m_Pools ]_vars

----------------------------------------------------------------------------
(* A pool whose live creation failed *)

\* The record of the step names a pool that is registered without a live pool.
NamesNullPool ==
    /\ rec'.pool # 0
    /\ rec'.pool \in DOMAIN player.m_Pools
    /\ player.m_Pools[rec'.pool].pool = VK_NULL_HANDLE

(* C34: a well-formed creation record that names a pool registered under a
   nonzero id with a null live pool, as a create pool record whose live call
   failed leaves it, counts no 'pool not found' warning, makes its creation
   call with no pool, and calls, warns and leaves the player exactly as the
   same record naming pool 0 would. *)
C34_NullPool ==
    [][ (StepLine /\ PoolCreation /\ NamesNullPool) =>
          /\ CountOf(warns', "Pool not found") = 0
          /\ Len(CreateCalls) = 1
          /\ CreateCalls[1].pool = VK_NULL_HANDLE
          /\ LET s == PlayerExecuteLine(Machine, [rec' EXCEPT !.pool = 0])
             IN  /\ calls' = s.calls
                 /\ warns' = s.warns
                 /\ player' = s.p ]_vars

\* The live creation of pool 1 failed and a buffer record naming pool 1 was
\* played: its buffer was created outside any pool, without a warning.
C34_Witness ==
    /\ AfterLine
    /\ rec.fn = "vmaCreateBuffer" /\ rec.pool = 1 /\ rec.id = 1 /\ rec.live
    /\ 1 \in DOMAIN player.m_Pools /\ player.m_Pools[1].pool = VK_NULL_HANDLE
    /\ player.m_Stats.m_FunctionCallCount["vmaCreatePool"] = 1
    /\ warns = << >>
    /\ Len(calls) = 1 /\ calls[1].fn = "vmaCreateBuffer"
    /\ calls[1].pool = VK_NULL_HANDLE

----------------------------------------------------------------------------
(* Calls on a null live handle *)

(* C35: while records are played, no call of map, unmap, flush, invalidate,
   touch, get allocation info, set user data or make pool allocations lost is
   made with a null live allocation or a null live pool. *)
C35_NoNullHandle ==
    [][ StepLine =>
          \A i \in DOMAIN calls' :
             calls'[i].fn \in UseEntryPoints => calls'[i].h # VK_NULL_HANDLE ]_vars

(* C36: over the records and the teardown, no live handle of an allocation or
   of a pool is passed to a destroy entry point more than once, and no map,
   unmap, flush, invalidate, touch, get allocation info or set user data call
   is made on a live handle that was passed to a destroy entry point
   before. *)
C36_DestroyedOnce ==
    /\ handles.again = {}
    /\ handles.stale = {}

\* A buffer was created and destroyed, the record that maps it found nothing
\* to call, and the teardown has run.
C36_Witness ==
    /\ TornDown
    /\ nlines = 3
    /\ rec.fn = "vmaMapMemory"
    /\ handles.created = {1} /\ handles.destroyed = {1}
    /\ player.m_Stats.m_FunctionCallCount["vmaDestroyBuffer"] = 1

----------------------------------------------------------------------------
(* The ids of the two registries *)

(* C37: neither registry ever holds an entry under the original id 0; a
   well-formed creation record of a nonzero id leaves its registry with the
   ids it held and that id, once; and a record that creates or destroys an
   allocation leaves the registry of the pools as it is, whatever ids it
   holds, as a record that creates or destroys a pool leaves the registry of
   the allocations. *)
C37_RegistryIds ==
    /\ [](0 \notin DOMAIN player.m_Allocations /\ 0 \notin DOMAIN player.m_Pools)
    /\ [][ StepLine =>
            /\ rec'.fn \in CreateAllocationFns \cup DestroyAllocationFns
                  => player'.m_Pools = player.m_Pools
            /\ rec'.fn \in {"vmaCreatePool", "vmaDestroyPool"}
                  => player'.m_Allocations = player.m_Allocations
            /\ (WellFormed(rec') /\ rec'.id # 0 /\ rec'.fn \in CreateAllocationFns)
                  => DOMAIN player'.m_Allocations
                        = DOMAIN player.m_Allocations \cup {rec'.id}
            /\ (WellFormed(rec') /\ rec'.id # 0 /\ rec'.fn = "vmaCreatePool")
                  => DOMAIN player'.m_Pools = DOMAIN player.m_Pools \cup {rec'.id}
         ]_vars

\* Pool 1 and buffer 1 were created and buffer 1 destroyed: pool 1 is still
\* registered.
C37_Witness ==
    /\ AfterLine /\ nlines = 3
    /\ rec.fn = "vmaDestroyBuffer" /\ rec.id = 1
    /\ Len(calls) = 1 /\ calls[1].fn = "vmaDestroyBuffer"
    /\ DOMAIN player.m_Pools = {1}
    /\ player.m_Pools[1].pool # VK_NULL_HANDLE
    /\ player.m_Allocations = << >>

----------------------------------------------------------------------------
(* Allocations for a buffer or an image, replayed as raw allocations *)

MaxLinesSubstitute == 2

\* For-buffer and for-image records of every requires-dedicated and
\* prefers-dedicated field, with and without recorded flags, a buffer for
\* comparison, and the three destroy records.
RecordsSubstitute ==
    {[Rec(fn, MinCount(fn), 1) EXCEPT !.reqDed = rd, !.prefDed = pd, !.flags = fl] :
        fn \in ForBufferOrImageFns, rd \in BOOLEAN, pd \in BOOLEAN,
        fl \in {{}, {DEDICATED_MEMORY_BIT}, {USER_DATA_COPY_STRING_BIT}}}
    \cup {[Rec("vmaAllocateMemoryForBuffer",
               MinCount("vmaAllocateMemoryForBuffer"), 1) EXCEPT !.live = FALSE],
          [Rec("vmaAllocateMemoryForImage",
               MinCount("vmaAllocateMemoryForImage"), 1) EXCEPT !.dec = FALSE],
          Rec("vmaCreateBuffer", MinCount("vmaCreateBuffer"), 2)}
    \cup {Rec(fn, MinCount(fn), id) : fn \in DestroyAllocationFns, id \in 1..2}

InitSubstitute == InitWith({FileOk}, {VERBOSITY_DEFAULT}, {TRUE}, {1})

NextSubstitute ==
    \/ OpenFile
    \/ BeginIteration
    \/ \E r \in RecordsSubstitute : ExecuteLine(r, MaxLinesSubstitute)
    \/ EndIteration

SpecSubstitute == InitSubstitute /\ [][NextSubstitute]_vars

(* C38: a well-formed for-buffer or for-image record makes one creation call,
   of vmaAllocateMemory, with the flags recorded and the dedicated-memory flag
   in addition exactly when its requires-dedicated or its prefers-dedicated
   field is set, and registers an entry with those flags and neither a buffer
   nor an image; a well-formed destroy buffer, destroy image or free memory
   record of an id registered with such an entry calls vmaFreeMemory on the
   allocation of the entry, and nothing else. *)
C38_Substitution ==
    /\ [][ (StepLine /\ rec'.fn \in ForBufferOrImageFns /\ WellFormed(rec')) =>
             LET flags == IF rec'.reqDed \/ rec'.prefDed
                          THEN rec'.flags \cup {"DEDICATED_MEMORY"} ELSE rec'.flags
             IN  /\ Len(OperationCalls) = 1
                 /\ OperationCalls[1].fn = "vmaAllocateMemory"
                 /\ OperationCalls[1].flags = flags
                 /\ rec'.id # 0 =>
                       /\ rec'.id \in DOMAIN player'.m_Allocations
                       /\ player'.m_Allocations[rec'.id].allocationFlags = flags
                       /\ player'.m_Allocations[rec'.id].buffer = VK_NULL_HANDLE
                       /\ player'.m_Allocations[rec'.id].image = VK_NULL_HANDLE ]_vars
    /\ [][ (/\ StepLine /\ rec'.fn \in DestroyAllocationFns /\ WellFormed(rec')
            /\ rec'.id \in DOMAIN player.m_Allocations
            /\ player.m_Allocations[rec'.id].buffer = VK_NULL_HANDLE
            /\ player.m_Allocations[rec'.id].image = VK_NULL_HANDLE) =>
             /\ Len(OperationCalls) = 1
             /\ OperationCalls[1].fn = "vmaFreeMemory"
             /\ OperationCalls[1].h = player.m_Allocations[rec'.id].allocation ]_vars

\* A for-image record registered id 1, and the destroy image record of id 1
\* freed its memory.
C38_Witness ==
    /\ AfterLine /\ nlines = 2
    /\ rec.fn = "vmaDestroyImage" /\ rec.id = 1
    /\ player.m_Stats.m_FunctionCallCount["vmaAllocateMemoryForImage"] = 1
    /\ player.m_Stats.m_AllocationCreationCount = 1
    /\ Len(calls) = 1 /\ calls[1].fn = "vmaFreeMemory" /\ calls[1].h = 1
    /\ warns = << >>

----------------------------------------------------------------------------
(* Set user data records *)

MaxLinesSetUserData == 2

\* A buffer whose live creation succeeds or fails, and set user data records
\* of an id that is registered, is not, or is 0, that are too short or not, do
\* not decode or do, whose user data converts or does not, of the current
\* frame or another.
RecordsSetUserData ==
    {[Rec("vmaCreateBuffer", MinCount("vmaCreateBuffer"), 1) EXCEPT !.live = l] :
        l \in BOOLEAN}
    \cup {[Rec("vmaSetAllocationUserData", c, id)
              EXCEPT !.dec = d, !.ud = ud, !.frame = f] :
            c \in FIRST_PARAM_INDEX..(FIRST_PARAM_INDEX + 2), id \in 0..2,
            d \in BOOLEAN, ud \in {BAD, 1}, f \in ZeroAndOne}

InitSetUserData == InitWith({FileOk}, {VERBOSITY_DEFAULT}, BOOLEAN, {1})

NextSetUserData ==
    \/ OpenFile
    \/ BeginIteration
    \/ \E r \in RecordsSetUserData : ExecuteLine(r, MaxLinesSetUserData)
    \/ EndIteration

SpecSetUserData == InitSetUserData /\ [][NextSetUserData]_vars

(* C39: while user data is disabled a set user data record, whether or not it
   has the columns it takes, decodes, or names a registered id, raises the
   call counter of set user data by one and does nothing else: it makes no
   call of an operation of the allocator, counts no warning beyond those of
   its header, leaves both registries and the other counters as they are,
   and leaves the player as its header and the counter alone do. *)
C39_SetUserDataDisabled ==
    [][ (/\ StepLine /\ ~g_UserDataEnabled
         /\ rec'.fn = "vmaSetAllocationUserData"
         /\ rec'.count >= FIRST_PARAM_INDEX) =>
          /\ OperationCalls = << >>
          /\ \A i \in DOMAIN warns' :
                warns'[i] \in {"Incorrect thread ID", "Incorrect frame index"}
          /\ player'.m_Allocations = player.m_Allocations
          /\ player'.m_Pools = player.m_Pools
          /\ \A f \in VMA_FUNCTION_NAMES :
                player'.m_Stats.m_FunctionCallCount[f] =
                    player.m_Stats.m_FunctionCallCount[f]
                    + IF f = "vmaSetAllocationUserData" THEN 1 ELSE 0
          /\ CreationCounted({})
          /\ LET s == ExecuteLineHeader(Machine, rec')
             IN  /\ calls' = s.calls
                 /\ warns' = s.warns
                 /\ [player' EXCEPT !.m_Stats = player.m_Stats] = s.p ]_vars

\* User data is disabled, a buffer is registered under id 1, and a set user
\* data record of id 1 that does not decode was played: nothing but its
\* counter moved.
C39_Witness ==
    /\ AfterLine /\ ~g_UserDataEnabled
    /\ rec.fn = "vmaSetAllocationUserData" /\ rec.id = 1 /\ ~rec.dec
    /\ rec.count = MinCount("vmaSetAllocationUserData") /\ rec.frame = 0
    /\ calls = << >> /\ warns = << >>
    /\ 1 \in DOMAIN player.m_Allocations
    /\ player.m_Stats.m_FunctionCallCount["vmaSetAllocationUserData"] = 1

----------------------------------------------------------------------------
(* Records that query or change an object *)

MaxLinesQuery == 2

\* A buffer and a pool whose live creation succeeds or fails, their destroy
\* records, and for each function that queries or changes an object: records
\* of an id that is 0, registered or not, a record that does not decode and
\* one that is too short; a map record whose live call fails.
RecordsQuery ==
    {[Rec(fn, MinCount(fn), 1) EXCEPT !.live = l] :
        fn \in {"vmaCreateBuffer", "vmaCreatePool"}, l \in BOOLEAN}
    \cup {Rec(fn, MinCount(fn), 1) : fn \in {"vmaDestroyBuffer", "vmaDestroyPool"}}
    \cup {Rec(fn, MinCount(fn), id) : fn \in UseEntryPoints, id \in 0..2}
    \cup {[Rec(fn, MinCount(fn), 1) EXCEPT !.dec = FALSE] : fn \in UseEntryPoints}
    \cup {Rec(fn, MinCount(fn) - 1, 1) : fn \in UseEntryPoints}
    \cup {[Rec("vmaMapMemory", MinCount("vmaMapMemory"), 1) EXCEPT !.live = FALSE]}

InitQuery == InitWith({FileOk}, {VERBOSITY_DEFAULT}, BOOLEAN, {1})

NextQuery ==
    \/ OpenFile
    \/ BeginIteration
    \/ \E r \in RecordsQuery : ExecuteLine(r, MaxLinesQuery)
    \/ EndIteration

SpecQuery == InitQuery /\ [][NextQuery]_vars

\* Registry new holds what registry old holds, and maybe more.
Keeps(old, new) ==
    \A id \in DOMAIN old : id \in DOMAIN new /\ new[id] = old[id]

(* C40: a map, unmap, flush, invalidate, touch, get allocation info, set user
   data or make pool allocations lost record, well-formed or not, whatever
   its live outcome, leaves both registries exactly as they are; a record
   adds or replaces an entry of a registry only if it is a creation record,
   and removes one only if it is a destroy record; the teardown removes what
   is left. *)
C40_RegistryUntouched ==
    [][ /\ (StepLine /\ rec'.fn \in UseEntryPoints) =>
              /\ player'.m_Allocations = player.m_Allocations
              /\ player'.m_Pools = player.m_Pools
        /\ (StepLine /\ rec'.fn \notin CreateAllocationFns) =>
              Keeps(player'.m_Allocations, player.m_Allocations)
        /\ (StepLine /\ rec'.fn # "vmaCreatePool") =>
              Keeps(player'.m_Pools, player.m_Pools)
        /\ (StepLine /\ rec'.fn \notin DestroyAllocationFns) =>
              DOMAIN player.m_Allocations \subseteq DOMAIN player'.m_Allocations
        /\ (StepLine /\ rec'.fn # "vmaDestroyPool") =>
              DOMAIN player.m_Pools \subseteq DOMAIN player'.m_Pools
        /\ StepTeardown =>
              player'.m_Allocations = << >> /\ player'.m_Pools = << >> ]_vars

\* A buffer whose live creation failed is registered under id 1 and a set
\* user data record of id 1 was played, which called the allocator: the
\* entry is as it was.
C40_Witness ==
    /\ AfterLine /\ nlines = 2 /\ g_UserDataEnabled
    /\ rec.fn = "vmaSetAllocationUserData" /\ rec.id = 1
    /\ Len(calls) = 1 /\ calls[1].fn = "vmaSetAllocationUserData"
    /\ DOMAIN player.m_Allocations = {1}
    /\ player.m_Allocations[1].allocation = VK_NULL_HANDLE
    /\ player.m_Pools = << >>

====
